---------------------------- MODULE Spec2Model ----------------------------
(***************************************************************************)
(* A model of the LuminaryChat request-proxy gateway (src/luminarychat.py): *)
(* the sliding-window RateLimiter, the UpstreamAPIClient dispatch with      *)
(* retry/backoff, persona injection and outcome classification, the         *)
(* MetricsCollector, the StreamProcessor and the request pipeline of        *)
(* create_chat_completion.                                                  *)
(*                                                                          *)
(* Time is counted in whole seconds, latencies in milliseconds.  Each       *)
(* component has a specification of its own (SpecRateLimiter, SpecDispatch, *)
(* SpecMetrics, SpecStream, SpecPipeline); the variables of the other       *)
(* components stay at their initial values.                                 *)
(***************************************************************************)
EXTENDS Integers, Sequences, FiniteSets

VARIABLES
    \* ---- RateLimiter (class RateLimiter) ----
    rate_per_minute,  \* RateLimiter.rate_per_minute
    requests,         \* RateLimiter.requests: key -> list of timestamps
    lock,             \* RateLimiter.lock: 0 when free, else the call holding it
    now,              \* the wall clock read by time.time()
    ticks,            \* how many times the clock has advanced
    rlpc,             \* position of each check_rate_limit call in flight
    rlkey,            \* the key argument of each call
    rlnow,            \* the local `now` of each call (line 169)
    rlfull,           \* the outcome of the test at line 173 of each call
    rlbefore,         \* history variable: requests[key] when the call took the lock
    contended,        \* history variable: another call of the same key was waiting
    history           \* history variable: the calls that returned, in order, each
                      \* with its key, its `now` and the value it returned

rlVars == <<rate_per_minute, requests, lock, now, ticks, rlpc, rlkey, rlnow,
            rlfull, rlbefore, contended, history>>

VARIABLES
    \* ---- UpstreamAPIClient and create_chat_completion, one request ----
    MAX_RETRIES,      \* Configuration.MAX_RETRIES
    RETRY_DELAY,      \* Configuration.RETRY_DELAY
    chat_request,     \* the validated inbound request: model, messages, stream
    request_data,     \* the outbound body, a dict changed in place
    dpc,              \* position of the request in the dispatch
    attempt,          \* the loop variable of _retry_request
    last_exception,   \* _retry_request's last_exception
    sent,             \* the bodies the upstream received, one per call
    waits,            \* the delays slept between attempts, in order
    results,          \* history variable: how each attempt ended
    response,         \* the response an attempt returned, if any
    outcome,          \* the pair proxy_chat_completion returned
    answer            \* what create_chat_completion answered the caller

dVars == <<MAX_RETRIES, RETRY_DELAY, chat_request, request_data, dpc, attempt,
           last_exception, sent, waits, results, response, outcome, answer>>

VARIABLES
    \* ---- MetricsCollector (class MetricsCollector) ----
    request_count,       \* MetricsCollector.request_count
    error_count,         \* MetricsCollector.error_count
    total_latency,       \* MetricsCollector.total_latency, in milliseconds
    streaming_requests,  \* MetricsCollector.streaming_requests
    recorded,            \* history variable: the record_request calls, in order
    snapshot             \* what the last get_metrics call returned

mVars == <<request_count, error_count, total_latency, streaming_requests,
           recorded, snapshot>>

VARIABLES
    \* ---- request_middleware and create_chat_completion, concurrent requests ----
    preq,        \* each request: the client key, the model and the stream flag
    ppc,         \* position of each request in the pipeline
    padmission,  \* history variable: what check_rate_limit returned for it
    pattempt,    \* the loop variable of its _retry_request
    plast,       \* the last_exception of its _retry_request
    pcalls,      \* history variable: the upstream calls made for it
    poutcome,    \* the pair its proxy_chat_completion returned
    panswer,     \* the status and body answered to its caller
    prelayed,    \* history variable: its process_stream has yielded a frame
    pbody        \* the upstream body it read and the body it returned

pVars == <<preq, ppc, padmission, pattempt, plast, pcalls, poutcome, panswer,
           prelayed, pbody>>

VARIABLES
    \* ---- StreamProcessor.process_stream, one relay ----
    requested_model_id,  \* the argument requested_model_id
    sresponse,           \* the argument response: "live", or "None"
    upstream,            \* the lines response.content will deliver, in order
    ending,              \* what follows them: the end of the body, or a failed read
    spc,                 \* position of the generator
    spos,                \* how many lines the loop has taken
    frames,              \* the frames yielded to the consumer, in order
    closed               \* response.closed

sVars == <<requested_model_id, sresponse, upstream, ending, spc, spos, frames,
           closed>>

VARIABLES
    \* ---- Configuration and HTTPSessionManager ----
    REQUEST_TIMEOUT,  \* Configuration.REQUEST_TIMEOUT, as read from the environment
    configured,       \* whether Configuration._validate has accepted it
    session,          \* HTTPSessionManager.session: 0 for None, else a client
    sopen,            \* the clients that are not closed
    made,             \* how many clients the manager has constructed
    stimeout,         \* the ClientTimeout of the last client constructed
    slock,            \* HTTPSessionManager.lock: 0 when free, else its holder
    smpc,             \* position of each get_session or close call in flight
    smop,             \* which of the two each call is
    smbefore,         \* history variable: session, sopen, made when the call took the lock
    smconc,           \* history variable: the call overlapped another one
    smlog             \* history variable: the calls that returned, in order

smVars == <<REQUEST_TIMEOUT, configured, session, sopen, made, stimeout, slock,
            smpc, smop, smbefore, smconc, smlog>>

vars == <<rlVars, dVars, mVars, pVars, sVars, smVars>>

-----------------------------------------------------------------------------
(* Bounds of the model *)

MaxConcurrent == 2
MaxCalls == 3
MaxRate == 2
MaxTicks == 2
MaxRetries == 3
MaxDelay == 2
MaxMessages == 2
MaxRecords == 3
MaxRequests == 2
MaxLines == 3

(* Program constants *)

WINDOW_SECONDS == 60
\* line 278: connect=10
CONNECT_TIMEOUT == 10
\* lines 206-207: round(x, 3) keeps thousandths
THOUSANDTHS == 1000

-----------------------------------------------------------------------------
(* RateLimiter *)

Keys == {"10.0.0.1", "unknown"}
Calls == 1..MaxConcurrent
TickSteps == {WINDOW_SECONDS - 1, WINDOW_SECONDS}

\* line 170: window_start = now - 60.0
WindowStart(t) == t - WINDOW_SECONDS

UnexpiredLate(ts, window_start) == ts >= window_start
\* line 171: the filter of the list comprehension, ts > window_start
Unexpired(ts, window_start) == ts > window_start

\* line 171: [ts for ts in self.requests[key] if ts > window_start]
Pruned(seq, window_start) ==
    SelectSeq(seq, LAMBDA ts : Unexpired(ts, window_start))

WindowFullOffByOne(seq) == Len(seq) > rate_per_minute
\* line 173: len(self.requests[key]) >= self.rate_per_minute
WindowFull(seq) == Len(seq) >= rate_per_minute

StoredAlways(seq, full, t) == Append(seq, t)
\* lines 173-177: a full window returns False and stores nothing, otherwise
\* now is appended
Stored(seq, full, t) == IF full THEN seq ELSE Append(seq, t)

LockFreeIgnored == TRUE
\* line 168: async with self.lock -- the body is entered only when the lock is free
LockFree == lock = 0

RLInit ==
    /\ rate_per_minute \in 0..MaxRate
    /\ requests = [k \in Keys |-> <<>>]
    /\ lock = 0
    /\ now = 0
    /\ ticks = 0
    /\ rlpc = [c \in Calls |-> "idle"]
    /\ rlkey = [c \in Calls |-> "unknown"]
    /\ rlnow = [c \in Calls |-> 0]
    /\ rlfull = [c \in Calls |-> FALSE]
    /\ rlbefore = [c \in Calls |-> <<>>]
    /\ contended = [c \in Calls |-> FALSE]
    /\ history = <<>>

InFlight == {c \in Calls : rlpc[c] # "idle"}

\* line 598: a request calls rate_limiter.check_rate_limit(client_ip) and
\* waits for the lock.  A new call takes the lowest free slot.
RLCall(c, k) ==
    /\ rlpc[c] = "idle"
    /\ \A d \in 1..(c - 1) : rlpc[d] # "idle"
    /\ Len(history) + Cardinality(InFlight) < MaxCalls
    /\ rlpc' = [rlpc EXCEPT ![c] = "wait"]
    /\ rlkey' = [rlkey EXCEPT ![c] = k]
    /\ UNCHANGED <<rate_per_minute, requests, lock, now, ticks, rlnow, rlfull,
                   rlbefore, contended, history>>
    /\ UNCHANGED <<dVars, mVars, pVars, sVars, smVars>>

\* line 168: the lock is acquired
RLAcquire(c) ==
    /\ rlpc[c] = "wait"
    /\ LockFree
    /\ lock' = c
    /\ rlpc' = [rlpc EXCEPT ![c] = "locked"]
    /\ rlbefore' = [rlbefore EXCEPT ![c] = requests[rlkey[c]]]
    /\ contended' = [contended EXCEPT ![c] =
                        \E d \in Calls \ {c} : rlpc[d] = "wait" /\ rlkey[d] = rlkey[c]]
    /\ UNCHANGED <<rate_per_minute, requests, now, ticks, rlkey, rlnow, rlfull,
                   history>>
    /\ UNCHANGED <<dVars, mVars, pVars, sVars, smVars>>

\* lines 169-171: read the clock, drop the expired timestamps of the key
RLPrune(c) ==
    /\ rlpc[c] = "locked"
    /\ rlnow' = [rlnow EXCEPT ![c] = now]
    /\ requests' = [requests EXCEPT ![rlkey[c]] = Pruned(@, WindowStart(now))]
    /\ rlpc' = [rlpc EXCEPT ![c] = "pruned"]
    /\ UNCHANGED <<rate_per_minute, lock, now, ticks, rlkey, rlfull, rlbefore,
                   contended, history>>
    /\ UNCHANGED <<dVars, mVars, pVars, sVars, smVars>>

\* line 173: compare the length of the pruned list with the limit
RLCheck(c) ==
    /\ rlpc[c] = "pruned"
    /\ rlfull' = [rlfull EXCEPT ![c] = WindowFull(requests[rlkey[c]])]
    /\ rlpc' = [rlpc EXCEPT ![c] = "checked"]
    /\ UNCHANGED <<rate_per_minute, requests, lock, now, ticks, rlkey, rlnow,
                   rlbefore, contended, history>>
    /\ UNCHANGED <<dVars, mVars, pVars, sVars, smVars>>

\* lines 174-177: return False, or append now and return True; the lock is
\* released on leaving the with block and the call's locals are gone
RLFinish(c) ==
    /\ rlpc[c] = "checked"
    /\ requests' = [requests EXCEPT ![rlkey[c]] = Stored(@, rlfull[c], rlnow[c])]
    /\ lock' = 0
    /\ history' = Append(history, [key |-> rlkey[c], time |-> rlnow[c],
                                   allowed |-> ~rlfull[c],
                                   contended |-> contended[c]])
    /\ rlpc' = [rlpc EXCEPT ![c] = "idle"]
    /\ rlkey' = [rlkey EXCEPT ![c] = "unknown"]
    /\ rlnow' = [rlnow EXCEPT ![c] = 0]
    /\ rlfull' = [rlfull EXCEPT ![c] = FALSE]
    /\ rlbefore' = [rlbefore EXCEPT ![c] = <<>>]
    /\ contended' = [contended EXCEPT ![c] = FALSE]
    /\ UNCHANGED <<rate_per_minute, now, ticks>>
    /\ UNCHANGED <<dVars, mVars, pVars, sVars, smVars>>

\* the wall clock advances.  The clock is read at line 169 only, so its
\* advance is taken at the moment a call is about to read it.
Tick(d) ==
    /\ ticks < MaxTicks
    /\ \E c \in Calls : rlpc[c] = "locked"
    /\ now' = now + d
    /\ ticks' = ticks + 1
    /\ UNCHANGED <<rate_per_minute, requests, lock, rlpc, rlkey, rlnow, rlfull,
                   rlbefore, contended, history>>
    /\ UNCHANGED <<dVars, mVars, pVars, sVars, smVars>>

RLNext ==
    \/ \E c \in Calls, k \in Keys : RLCall(c, k)
    \/ \E c \in Calls : RLAcquire(c)
    \/ \E c \in Calls : RLPrune(c)
    \/ \E c \in Calls : RLCheck(c)
    \/ \E c \in Calls : RLFinish(c)
    \/ \E d \in TickSteps : Tick(d)

-----------------------------------------------------------------------------
(* Python values.  A value is None, a list or a dict; of a dict the model   *)
(* keeps its top-level keys and, under "error", a string or a dict with any *)
(* of the keys message, type and code.                                      *)

PyValue(kind, top, ekind, keys, message, type, code) ==
    [kind |-> kind, top |-> top, ekind |-> ekind, keys |-> keys,
     message |-> message, type |-> type, code |-> code]

PyNone == PyValue("None", {}, "absent", {}, "", "", 0)
PyList == PyValue("list", {}, "absent", {}, "", "", 0)

\* a dict of the form {"error": {"message": ..., "type": ..., "code": ...}}
ErrorEnvelope(message, type, code) ==
    PyValue("dict", {"error"}, "dict", {"message", "type", "code"},
            message, type, code)

\* the bodies an upstream error response may carry: text that is not JSON,
\* or JSON null, {}, an array, an object without "error", an object whose
\* "error" is a string, an object whose "error" is an object
Body(form, top, ekind, keys, message, type, code) ==
    [form |-> form, top |-> top, ekind |-> ekind, keys |-> keys,
     message |-> message, type |-> type, code |-> code]

ErrorBodies(status) ==
    { Body("text", {}, "absent", {}, "Bad Gateway", "", 0),
      Body("null", {}, "absent", {}, "", "", 0),
      Body("object", {}, "absent", {}, "", "", 0),
      Body("array", {}, "absent", {}, "", "", 0),
      Body("object", {"detail"}, "absent", {}, "", "", 0),
      Body("object", {"error"}, "str", {}, "overloaded", "", 0),
      Body("object", {"error"}, "dict", {"message"}, "overloaded", "", 0),
      Body("object", {"error"}, "dict", {"message", "type", "code"},
           "overloaded", "upstream_error", status),
      Body("object", {"error"}, "dict", {"message", "type", "code"},
           "bad request", "invalid_request_error", status),
      Body("object", {"error"}, "dict", {"message", "type", "code"},
           "bad request", "invalid_request_error", 422) }

OkBody == Body("object", {"model"}, "absent", {}, "", "", 0)

\* json.loads: raises JSONDecodeError on text that is not JSON; null becomes
\* None, an array a list, an object a dict
JsonLoads(body) ==
    IF body.form = "text"
    THEN [raised |-> TRUE, value |-> PyNone]
    ELSE [raised |-> FALSE,
          value |-> PyValue(CASE body.form = "null" -> "None"
                              [] body.form = "array" -> "list"
                              [] OTHER -> "dict",
                            body.top, body.ekind, body.keys, body.message,
                            body.type, body.code)]

\* the truth value of a Python value: None and the empty dict are false
Truthy(v) == ~(v.kind = "None" \/ (v.kind = "dict" /\ v.top = {}))

-----------------------------------------------------------------------------
(* The personas (src/personas) and the request *)

PersonaIds == {"luminary/socrates", "luminary/confucius"}

\* load_personas: system_prompt = pre_instructions + biography
SystemPrompt(id) ==
    IF id = "luminary/socrates"
    THEN "PRE_INSTRUCTIONS + BIOGRAPHY of Socrates"
    ELSE "PRE_INSTRUCTIONS + BIOGRAPHY of Confucius"

UPSTREAM_MODEL_NAME == "promptshield/gemini-flash-lite-latest"

\* ChatMessage.role
Roles == {"system", "user", "assistant", "function"}
Contents == {"hello"}
Messages == [role : Roles, content : Contents]

\* ChatCompletionRequest.messages: at least one message
MessageLists == UNION {[1..n -> Messages] : n \in 1..MaxMessages}

\* how an upstream call may end: a response with a status (and, for an error
\* status, a body that may also fail to be read), a timeout, a connection
\* failure, or another exception
Statuses == {200, 400, 503}

Responses ==
    {[kind |-> "response", status |-> 200, read |-> "ok", body |-> OkBody]}
    \cup UNION {{[kind |-> "response", status |-> st, read |-> "ok", body |-> b] :
                     b \in ErrorBodies(st)} : st \in Statuses \ {200}}
    \cup {[kind |-> "response", status |-> st, read |-> rd, body |-> OkBody] :
             st \in Statuses \ {200}, rd \in {"timeout", "client"}}

Raised(kind) == [kind |-> kind, status |-> 0, read |-> "ok", body |-> OkBody]

NoResponse == Raised("none")

AttemptResults == Responses \cup {Raised("timeout"), Raised("client"), Raised("other")}

RECURSIVE Pow2(_)
Pow2(n) == IF n = 0 THEN 1 ELSE 2 * Pow2(n - 1)

-----------------------------------------------------------------------------
(* UpstreamAPIClient *)

KeepCallerModel(data) == data
\* line 333: request_data["model"] = self.config.UPSTREAM_MODEL_NAME
SubstituteModel(data) == [data EXCEPT !.model = UPSTREAM_MODEL_NAME]

\* line 336: any(msg.get("role") == "system" for msg in messages)
HasSystem(messages) == \E i \in 1..Len(messages) : messages[i].role = "system"

InjectAlways(messages, prompt) ==
    <<[role |-> "system", content |-> prompt]>> \o messages
\* lines 338-345: without a system message, insert the persona's at index 0
Inject(messages, prompt) ==
    IF ~HasSystem(messages)
    THEN <<[role |-> "system", content |-> prompt]>> \o messages
    ELSE messages

\* lines 331-351: the outbound body (the persona is the one registered
\* under the caller's model, line 646)
Prepared(data) ==
    LET substituted == SubstituteModel(data)
    IN  [substituted EXCEPT
            !.messages = Inject(@, SystemPrompt(chat_request.model))]

RetryableAnyException(result) == result.kind # "response"

RetryableOrServerError(result) ==
    \/ result.kind \in {"timeout", "client"}
    \/ result.kind = "response" /\ result.status >= 500
\* line 311: except (aiohttp.ClientError, asyncio.TimeoutError)
Retryable(result) == result.kind \in {"timeout", "client"}

DelayConstant(n) == RETRY_DELAY
\* line 314: delay = self.config.RETRY_DELAY * (2 ** attempt)
Delay(n) == RETRY_DELAY * Pow2(n)

ExceptionErrorSwapped(kind) ==
    CASE kind = "timeout" ->
            ErrorEnvelope("Failed to connect to upstream API", "connection_error", 502)
      [] kind = "client" ->
            ErrorEnvelope("Request to upstream API timed out", "timeout_error", 504)
      [] OTHER -> ErrorEnvelope("Unexpected error", "internal_error", 500)
\* lines 377-403: the error for an exception that left the try block
ExceptionError(kind) ==
    CASE kind = "timeout" ->
            ErrorEnvelope("Request to upstream API timed out", "timeout_error", 504)
      [] kind = "client" ->
            ErrorEnvelope("Failed to connect to upstream API", "connection_error", 502)
      [] OTHER -> ErrorEnvelope("Unexpected error", "internal_error", 500)

\* lines 362-373: the error built from the body of a response of status >= 400
UpstreamError(resp) ==
    LET parsed == JsonLoads(resp.body)
    IN  IF parsed.raised
        THEN ErrorEnvelope(resp.body.message, "upstream_error", resp.status)
        ELSE parsed.value

\* lines 361-375 with the handlers of lines 377-394: the pair returned for a
\* response; reading the body of an error response may itself time out or fail
Classified(resp) ==
    IF resp.status >= 400
    THEN [response |-> "None",
          error |-> IF resp.read = "ok" THEN UpstreamError(resp)
                    ELSE ExceptionError(resp.read)]
    ELSE [response |-> "live", error |-> PyNone]

DInit ==
    /\ MAX_RETRIES \in 0..MaxRetries
    /\ RETRY_DELAY \in 1..MaxDelay
    /\ chat_request \in [model : PersonaIds, messages : MessageLists,
                         stream : BOOLEAN]
    /\ request_data = [model |-> chat_request.model,
                       messages |-> chat_request.messages]
    /\ dpc = "start"
    /\ attempt = 0
    /\ last_exception = "None"
    /\ sent = <<>>
    /\ waits = <<>>
    /\ results = <<>>
    /\ response = NoResponse
    /\ outcome = [response |-> "None", error |-> PyNone]
    /\ answer = [status |-> 0, kind |-> "none", detail |-> PyNone]

\* lines 331-351, 305-306: build the outbound body and enter the retry loop
DPrepare ==
    /\ dpc = "start"
    /\ request_data' = Prepared(request_data)
    /\ attempt' = 0
    /\ last_exception' = "None"
    /\ dpc' = "loop"
    /\ UNCHANGED <<MAX_RETRIES, RETRY_DELAY, chat_request, sent, waits, results,
                   response, outcome, answer>>
    /\ UNCHANGED <<rlVars, mVars, pVars, sVars, smVars>>

DAttemptInjectsPersona(result) ==
    /\ dpc = "loop"
    /\ attempt < MAX_RETRIES
    /\ request_data' = [request_data EXCEPT !.messages =
                           InjectAlways(@, SystemPrompt(chat_request.model))]
    /\ sent' = Append(sent, request_data')
    /\ results' = Append(results, result)
    /\ IF Retryable(result)
       THEN /\ last_exception' = result.kind
            /\ IF attempt < MAX_RETRIES - 1
               THEN /\ waits' = Append(waits, Delay(attempt))
                    /\ dpc' = "sleeping"
                    /\ attempt' = attempt
               ELSE /\ waits' = waits
                    /\ dpc' = "loop"
                    /\ attempt' = attempt + 1
            /\ UNCHANGED <<response, outcome>>
       ELSE IF result.kind = "response"
       THEN /\ response' = result
            /\ dpc' = "responded"
            /\ UNCHANGED <<attempt, last_exception, waits, outcome>>
       ELSE /\ outcome' = [response |-> "None", error |-> ExceptionError(result.kind)]
            /\ dpc' = "classified"
            /\ UNCHANGED <<attempt, last_exception, waits, response>>
    /\ UNCHANGED <<MAX_RETRIES, RETRY_DELAY, chat_request, answer>>
    /\ UNCHANGED <<rlVars, mVars, pVars, sVars, smVars>>

DAttemptKeepsFirstException(result) ==
    /\ dpc = "loop"
    /\ attempt < MAX_RETRIES
    /\ sent' = Append(sent, request_data)
    /\ results' = Append(results, result)
    /\ IF Retryable(result)
       THEN /\ last_exception' = IF last_exception = "None" THEN result.kind
                                 ELSE last_exception
            /\ IF attempt < MAX_RETRIES - 1
               THEN /\ waits' = Append(waits, Delay(attempt))
                    /\ dpc' = "sleeping"
                    /\ attempt' = attempt
               ELSE /\ waits' = waits
                    /\ dpc' = "loop"
                    /\ attempt' = attempt + 1
            /\ UNCHANGED <<response, outcome>>
       ELSE IF result.kind = "response"
       THEN /\ response' = result
            /\ dpc' = "responded"
            /\ UNCHANGED <<attempt, last_exception, waits, outcome>>
       ELSE /\ outcome' = [response |-> "None", error |-> ExceptionError(result.kind)]
            /\ dpc' = "classified"
            /\ UNCHANGED <<attempt, last_exception, waits, response>>
    /\ UNCHANGED <<MAX_RETRIES, RETRY_DELAY, chat_request, request_data, answer>>
    /\ UNCHANGED <<rlVars, mVars, pVars, sVars, smVars>>

\* lines 308-320, 353-356: one pass of the loop.  The call returns a response
\* (of any status), which ends the loop; or it raises a retryable exception,
\* which is kept and, unless this was the last attempt, followed by a sleep;
\* or it raises another exception, which leaves _retry_request at once and is
\* caught at line 395.
DAttempt(result) ==
    /\ dpc = "loop"
    /\ attempt < MAX_RETRIES
    /\ sent' = Append(sent, request_data)
    /\ results' = Append(results, result)
    /\ IF Retryable(result)
       THEN /\ last_exception' = result.kind
            /\ IF attempt < MAX_RETRIES - 1
               THEN /\ waits' = Append(waits, Delay(attempt))
                    /\ dpc' = "sleeping"
                    /\ attempt' = attempt
               ELSE /\ waits' = waits
                    /\ dpc' = "loop"
                    /\ attempt' = attempt + 1
            /\ UNCHANGED <<response, outcome>>
       ELSE IF result.kind = "response"
       THEN /\ response' = result
            /\ dpc' = "responded"
            /\ UNCHANGED <<attempt, last_exception, waits, outcome>>
       ELSE /\ outcome' = [response |-> "None", error |-> ExceptionError(result.kind)]
            /\ dpc' = "classified"
            /\ UNCHANGED <<attempt, last_exception, waits, response>>
    /\ UNCHANGED <<MAX_RETRIES, RETRY_DELAY, chat_request, request_data, answer>>
    /\ UNCHANGED <<rlVars, mVars, pVars, sVars, smVars>>

\* line 320: the sleep ends and the loop goes on with the next attempt
DWake ==
    /\ dpc = "sleeping"
    /\ attempt' = attempt + 1
    /\ dpc' = "loop"
    /\ UNCHANGED <<MAX_RETRIES, RETRY_DELAY, chat_request, request_data,
                   last_exception, sent, waits, results, response, outcome, answer>>
    /\ UNCHANGED <<rlVars, mVars, pVars, sVars, smVars>>

DExhaustedRestarts ==
    /\ dpc = "loop"
    /\ attempt >= MAX_RETRIES
    /\ attempt' = 0
    /\ UNCHANGED <<MAX_RETRIES, RETRY_DELAY, chat_request, request_data, dpc,
                   last_exception, sent, waits, results, response, outcome, answer>>
    /\ UNCHANGED <<rlVars, mVars, pVars, sVars, smVars>>

\* line 322: the loop is over, raise last_exception; raising None (no attempt
\* was made) is a TypeError, handled at line 395 like any other exception
DExhausted ==
    /\ dpc = "loop"
    /\ attempt >= MAX_RETRIES
    /\ outcome' = [response |-> "None", error |-> ExceptionError(last_exception)]
    /\ dpc' = "classified"
    /\ UNCHANGED <<MAX_RETRIES, RETRY_DELAY, chat_request, request_data, attempt,
                   last_exception, sent, waits, results, response, answer>>
    /\ UNCHANGED <<rlVars, mVars, pVars, sVars, smVars>>

\* lines 359-375: _retry_request returned a response
DClassify ==
    /\ dpc = "responded"
    /\ outcome' = Classified(response)
    /\ dpc' = "classified"
    /\ UNCHANGED <<MAX_RETRIES, RETRY_DELAY, chat_request, request_data, attempt,
                   last_exception, sent, waits, results, response, answer>>
    /\ UNCHANGED <<rlVars, mVars, pVars, sVars, smVars>>

-----------------------------------------------------------------------------
(* create_chat_completion, from the return of proxy_chat_completion on *)

InternalErrorAsUpstream == ErrorEnvelope("Internal server error", "upstream_error", 502)
\* lines 707-716
InternalError == ErrorEnvelope("Internal server error", "internal_error", 500)

\* line 677: error.get("error", {}).get("code", 500); a list or a string has
\* no get, which raises AttributeError
ErrorCode(error) ==
    IF error.kind # "dict" THEN [raised |-> TRUE, code |-> 0]
    ELSE IF "error" \notin error.top THEN [raised |-> FALSE, code |-> 500]
    ELSE IF error.ekind # "dict" THEN [raised |-> TRUE, code |-> 0]
    ELSE IF "code" \notin error.keys THEN [raised |-> FALSE, code |-> 500]
    ELSE [raised |-> FALSE, code |-> error.code]

AnsweredNeverFails(pair, stream) ==
    IF stream THEN [status |-> 200, kind |-> "stream", detail |-> PyNone]
    ELSE [status |-> 200, kind |-> "json", detail |-> PyNone]

\* lines 676-716: the answer to the caller for the pair (response, error)
Answered(pair, stream) ==
    IF Truthy(pair.error)
    THEN \* lines 677-679, or the handler of lines 700-716
         IF ErrorCode(pair.error).raised
         THEN [status |-> 500, kind |-> "error", detail |-> InternalError]
         ELSE [status |-> ErrorCode(pair.error).code, kind |-> "error",
               detail |-> pair.error]
    ELSE IF stream
    THEN \* lines 681-691: the streaming response is returned as it is
         [status |-> 200, kind |-> "stream", detail |-> PyNone]
    ELSE IF pair.response = "None"
    THEN \* line 693 on None raises AttributeError: lines 700-716
         [status |-> 500, kind |-> "error", detail |-> InternalError]
    ELSE \* lines 693-696
         [status |-> 200, kind |-> "json", detail |-> PyNone]

DAnswer ==
    /\ dpc = "classified"
    /\ answer' = Answered(outcome, chat_request.stream)
    /\ dpc' = "answered"
    /\ UNCHANGED <<MAX_RETRIES, RETRY_DELAY, chat_request, request_data, attempt,
                   last_exception, sent, waits, results, response, outcome>>
    /\ UNCHANGED <<rlVars, mVars, pVars, sVars, smVars>>

DNext ==
    \/ DPrepare
    \/ \E result \in AttemptResults : DAttempt(result)
    \/ DWake
    \/ DExhausted
    \/ DClassify
    \/ DAnswer

-----------------------------------------------------------------------------
(* MetricsCollector.  record_request and get_metrics hold the collector's   *)
(* lock from their first statement to their last and do not await inside,   *)
(* so each is one step.                                                     *)

\* the latencies passed to record_request, in milliseconds; 0 is the literal
\* 0.0 of line 682
Latencies == {0, 200, 400}

\* the counters of the collector, lines 183-186
Counters ==
    [request_count |-> request_count, error_count |-> error_count,
     total_latency |-> total_latency, streaming_requests |-> streaming_requests]

NoCounters ==
    [request_count |-> 0, error_count |-> 0, total_latency |-> 0,
     streaming_requests |-> 0]

RecordedAllAsErrors(m, latency, is_error, is_streaming) ==
    [request_count |-> m.request_count + 1,
     total_latency |-> m.total_latency + latency,
     error_count |-> m.error_count + 1,
     streaming_requests |-> m.streaming_requests + (IF is_streaming THEN 1 ELSE 0)]

\* lines 191-197: the counters after record_request(latency, is_error, is_streaming)
Recorded(m, latency, is_error, is_streaming) ==
    [request_count |-> m.request_count + 1,
     total_latency |-> m.total_latency + latency,
     error_count |-> m.error_count + (IF is_error THEN 1 ELSE 0),
     streaming_requests |-> m.streaming_requests + (IF is_streaming THEN 1 ELSE 0)]

\* round(n / d) for d > 0: the integers nearest to n / d.  There are two of
\* them when n / d lies half-way; which one round() returns depends on the
\* binary representation of the float, so both are possible outcomes.
Rounded(n, d) ==
    {q \in {n \div d, n \div d + 1} :
        2 * q * d - 2 * n <= d /\ 2 * n - 2 * q * d <= d}

\* lines 201-202: avg_latency, then round(avg_latency, 3) of line 206,
\* in milliseconds
AverageLatency(m) ==
    IF m.request_count > 0 THEN Rounded(m.total_latency, m.request_count)
    ELSE {0}

\* line 207: round(error_count / request_count, 3), in thousandths
ErrorRate(m) ==
    IF m.request_count > 0
    THEN Rounded(THOUSANDTHS * m.error_count, m.request_count)
    ELSE {0}

NoSnapshot ==
    [taken |-> FALSE, at |-> 0, total_requests |-> 0, total_errors |-> 0,
     streaming_requests |-> 0, average_latency |-> 0, error_rate |-> 0]

MInit ==
    /\ request_count = 0
    /\ error_count = 0
    /\ total_latency = 0
    /\ streaming_requests = 0
    /\ recorded = <<>>
    /\ snapshot = NoSnapshot

\* lines 189-197
RecordRequest(latency, is_error, is_streaming) ==
    /\ Len(recorded) < MaxRecords
    /\ LET m == Recorded(Counters, latency, is_error, is_streaming)
       IN  /\ request_count' = m.request_count
           /\ error_count' = m.error_count
           /\ total_latency' = m.total_latency
           /\ streaming_requests' = m.streaming_requests
    /\ recorded' = Append(recorded, [latency |-> latency, is_error |-> is_error,
                                     is_streaming |-> is_streaming])
    /\ UNCHANGED snapshot
    /\ UNCHANGED <<rlVars, dVars, pVars, sVars, smVars>>

GetMetricsCounted ==
    /\ snapshot' = [NoSnapshot EXCEPT !.taken = TRUE, !.at = Len(recorded)]
    /\ request_count' = request_count + 1
    /\ UNCHANGED <<error_count, total_latency, streaming_requests, recorded>>
    /\ UNCHANGED <<rlVars, dVars, pVars, sVars, smVars>>

\* lines 199-209
GetMetrics ==
    /\ \E avg \in AverageLatency(Counters), rate \in ErrorRate(Counters) :
          snapshot' = [taken |-> TRUE, at |-> Len(recorded),
                       total_requests |-> request_count,
                       total_errors |-> error_count,
                       streaming_requests |-> streaming_requests,
                       average_latency |-> avg,
                       error_rate |-> rate]
    /\ UNCHANGED <<request_count, error_count, total_latency, streaming_requests,
                   recorded>>
    /\ UNCHANGED <<rlVars, dVars, pVars, sVars, smVars>>

MNext ==
    \/ \E latency \in Latencies, is_error \in BOOLEAN, is_streaming \in BOOLEAN :
          RecordRequest(latency, is_error, is_streaming)
    \/ GetMetrics

-----------------------------------------------------------------------------
(* The request pipeline: request_middleware around create_chat_completion,  *)
(* for requests that run concurrently on the shared RateLimiter and         *)
(* MetricsCollector.  The clock stands still, so no admitted request leaves *)
(* the window; the sleeps of the retry loop are part of the attempt that    *)
(* precedes them.                                                           *)

Reqs == 1..MaxRequests

\* ChatCompletionRequest.model: a registered id and one that differs from it
\* in case only
RequestedModels == {"luminary/socrates", "luminary/Socrates"}

PRequests == [key : Keys, model : RequestedModels, stream : BOOLEAN]

\* the upstream call results the pipeline is run with
PResults ==
    {r \in AttemptResults :
        \/ r.kind \in {"timeout", "other"}
        \/ r.kind = "response" /\ r.status = 200
        \/ /\ r.kind = "response" /\ r.status = 400 /\ r.read = "ok"
           /\ r.body \in {Body("text", {}, "absent", {}, "Bad Gateway", "", 0),
                          Body("object", {}, "absent", {}, "", "", 0),
                          Body("object", {"error"}, "str", {}, "overloaded", "", 0),
                          Body("object", {"error"}, "dict", {"message"},
                               "overloaded", "", 0),
                          Body("object", {"error"}, "dict",
                               {"message", "type", "code"},
                               "bad request", "invalid_request_error", 400)}}

\* the latency request_middleware measures (lines 562, 569), in milliseconds
MiddlewareLatencies == {200}

GetPersonalityOrAny(id) == TRUE
\* lines 249-251: self.personalities.get(personality_id) finds a persona
GetPersonality(id) == id \in PersonaIds

DenialIgnored(full) == TRUE
\* lines 173-177: check_rate_limit returns False for a full window
Allowed(full) == ~full

\* lines 600-609
RateLimitExceeded ==
    [status |-> 429, kind |-> "error",
     detail |-> ErrorEnvelope("Rate limit exceeded", "rate_limit_error", 429)]

\* lines 647-658
ModelNotFound ==
    [status |-> 404, kind |-> "error",
     detail |-> ErrorEnvelope("Model not found", "invalid_request_error", 404)]

NoAnswer == [status |-> 0, kind |-> "none", detail |-> PyNone]

\* the body of an upstream response of status 200, as response.json() finds
\* it: an object with or without a "model" key (rest stands for its other
\* keys and their values), an array, a number or null, or a body that
\* response.json() cannot return
JsonBody(form, has_model, model, rest) ==
    [form |-> form, has_model |-> has_model, model |-> model, rest |-> rest]

NoBody == JsonBody("none", FALSE, "", "")

BufferedBodies ==
    { JsonBody("object", TRUE, UPSTREAM_MODEL_NAME, "id, choices, usage"),
      JsonBody("object", FALSE, "", "id, choices, usage"),
      JsonBody("array", FALSE, "", "items"),
      JsonBody("scalar", FALSE, "", ""),
      JsonBody("unreadable", FALSE, "", "") }

ReturnedUntouched(body, id) == body
\* lines 694-696: the content of the JSONResponse
Returned(body, id) == IF body.has_model THEN [body EXCEPT !.model = id] ELSE body
NoOutcome == [response |-> "None", error |-> PyNone]

\* lines 569-571: the record request_middleware makes of a response
MiddlewareRecord(status, latency) ==
    [latency |-> latency, is_error |-> status >= 400, is_streaming |-> FALSE]

\* line 682
StreamingRecord == [latency |-> 0, is_error |-> FALSE, is_streaming |-> TRUE]

RecordedCall(m, call) ==
    Recorded(m, call.latency, call.is_error, call.is_streaming)

\* record_request is called with each of `calls` in turn (one or two calls)
PRecord(calls) ==
    /\ LET m == IF Len(calls) = 1 THEN RecordedCall(Counters, calls[1])
                ELSE RecordedCall(RecordedCall(Counters, calls[1]), calls[2])
       IN  /\ request_count' = m.request_count
           /\ error_count' = m.error_count
           /\ total_latency' = m.total_latency
           /\ streaming_requests' = m.streaming_requests
    /\ recorded' = recorded \o calls
    /\ UNCHANGED snapshot

\* request r is answered with `a`, which request_middleware records
PRespond(r, a) ==
    /\ panswer' = [panswer EXCEPT ![r] = a]
    /\ \E latency \in MiddlewareLatencies :
          PRecord(<<MiddlewareRecord(a.status, latency)>>)

PInit ==
    /\ preq = [r \in Reqs |-> [key |-> "unknown", model |-> "luminary/socrates",
                               stream |-> FALSE]]
    /\ ppc = [r \in Reqs |-> "idle"]
    /\ padmission = [r \in Reqs |-> "none"]
    /\ pattempt = [r \in Reqs |-> 0]
    /\ plast = [r \in Reqs |-> "None"]
    /\ pcalls = [r \in Reqs |-> 0]
    /\ poutcome = [r \in Reqs |-> NoOutcome]
    /\ panswer = [r \in Reqs |-> NoAnswer]
    /\ prelayed = [r \in Reqs |-> FALSE]
    /\ pbody = [r \in Reqs |-> [upstream |-> NoBody, returned |-> NoBody]]

\* lines 556-566: a request reaches request_middleware; requests are numbered
\* in the order of their arrival
PArrive(r, req) ==
    /\ ppc[r] = "idle"
    /\ \A q \in 1..(r - 1) : ppc[q] # "idle"
    /\ preq' = [preq EXCEPT ![r] = req]
    /\ ppc' = [ppc EXCEPT ![r] = "received"]
    /\ UNCHANGED <<padmission, pattempt, plast, pcalls, poutcome, panswer,
                   prelayed>>
    /\ UNCHANGED <<rlVars, dVars, mVars, sVars, smVars>>
    /\ UNCHANGED pbody

PAdmissionAfterPersona(r) ==
    /\ ppc[r] = "received"
    /\ LET key == preq[r].key
           window == Pruned(requests[key], WindowStart(now))
           full == WindowFull(window)
       IN  IF ~GetPersonality(preq[r].model)
           THEN /\ ppc' = [ppc EXCEPT ![r] = "not_found"]
                /\ PRespond(r, ModelNotFound)
                /\ UNCHANGED <<requests, padmission>>
           ELSE /\ requests' = [requests EXCEPT ![key] = Stored(window, full, now)]
                /\ padmission' = [padmission EXCEPT ![r] =
                                     IF full THEN "denied" ELSE "allowed"]
                /\ IF Allowed(full)
                   THEN /\ ppc' = [ppc EXCEPT ![r] = "admitted"]
                        /\ UNCHANGED <<panswer, mVars>>
                   ELSE /\ ppc' = [ppc EXCEPT ![r] = "rejected"]
                        /\ PRespond(r, RateLimitExceeded)
    /\ UNCHANGED <<preq, pattempt, plast, pcalls, poutcome, prelayed>>
    /\ UNCHANGED <<rate_per_minute, lock, now, ticks, rlpc, rlkey, rlnow, rlfull,
                   rlbefore, contended, history>>
    /\ UNCHANGED <<dVars, sVars, smVars>>
    /\ UNCHANGED pbody

\* line 644, lines 594-609 and 166-177: verify_rate_limit.  A denial raises
\* the HTTPException of line 600, which leaves create_chat_completion through
\* line 699.
PAdmission(r) ==
    /\ ppc[r] = "received"
    /\ LET key == preq[r].key
           window == Pruned(requests[key], WindowStart(now))
           full == WindowFull(window)
       IN  /\ requests' = [requests EXCEPT ![key] = Stored(window, full, now)]
           /\ padmission' = [padmission EXCEPT ![r] =
                                IF full THEN "denied" ELSE "allowed"]
           /\ IF Allowed(full)
              THEN /\ ppc' = [ppc EXCEPT ![r] = "admitted"]
                   /\ UNCHANGED <<panswer, mVars>>
              ELSE /\ ppc' = [ppc EXCEPT ![r] = "rejected"]
                   /\ PRespond(r, RateLimitExceeded)
    /\ UNCHANGED <<preq, pattempt, plast, pcalls, poutcome, prelayed>>
    /\ UNCHANGED <<rate_per_minute, lock, now, ticks, rlpc, rlkey, rlnow, rlfull,
                   rlbefore, contended, history>>
    /\ UNCHANGED <<dVars, sVars, smVars>>
    /\ UNCHANGED pbody

\* lines 646-674: the persona is looked up; an unknown one raises the
\* HTTPException of line 648, a known one is dispatched
PResolve(r) ==
    /\ ppc[r] = "admitted"
    /\ IF GetPersonality(preq[r].model)
       THEN /\ ppc' = [ppc EXCEPT ![r] = "dispatching"]
            /\ pattempt' = [pattempt EXCEPT ![r] = 0]
            /\ plast' = [plast EXCEPT ![r] = "None"]
            /\ UNCHANGED <<panswer, mVars>>
       ELSE /\ ppc' = [ppc EXCEPT ![r] = "not_found"]
            /\ PRespond(r, ModelNotFound)
            /\ UNCHANGED <<pattempt, plast>>
    /\ UNCHANGED <<preq, padmission, pcalls, poutcome, prelayed>>
    /\ UNCHANGED <<rlVars, dVars, sVars, smVars>>
    /\ UNCHANGED pbody

\* lines 308-320 and 353-394: one upstream call of the retry loop and what
\* proxy_chat_completion makes of its result
PAttempt(r, result) ==
    /\ ppc[r] = "dispatching"
    /\ pattempt[r] < MAX_RETRIES
    /\ pcalls' = [pcalls EXCEPT ![r] = @ + 1]
    /\ IF Retryable(result)
       THEN /\ plast' = [plast EXCEPT ![r] = result.kind]
            /\ pattempt' = [pattempt EXCEPT ![r] = @ + 1]
            /\ UNCHANGED <<ppc, poutcome>>
       ELSE /\ poutcome' = [poutcome EXCEPT ![r] =
                               IF result.kind = "response" THEN Classified(result)
                               ELSE [response |-> "None",
                                     error |-> ExceptionError(result.kind)]]
            /\ ppc' = [ppc EXCEPT ![r] = "classified"]
            /\ UNCHANGED <<plast, pattempt>>
    /\ UNCHANGED <<preq, padmission, panswer, prelayed>>
    /\ UNCHANGED <<rlVars, dVars, mVars, sVars, smVars>>
    /\ UNCHANGED pbody

\* line 322 and lines 377-403: the attempts are used up
PExhausted(r) ==
    /\ ppc[r] = "dispatching"
    /\ pattempt[r] >= MAX_RETRIES
    /\ poutcome' = [poutcome EXCEPT ![r] =
                       [response |-> "None", error |-> ExceptionError(plast[r])]]
    /\ ppc' = [ppc EXCEPT ![r] = "classified"]
    /\ UNCHANGED <<preq, padmission, pattempt, plast, pcalls, panswer, prelayed>>
    /\ UNCHANGED <<rlVars, dVars, mVars, sVars, smVars>>
    /\ UNCHANGED pbody

\* lines 676-691 and 698-716: the pair is turned into an error answer or a
\* StreamingResponse, or the response body is awaited (line 693)
PAnswer(r) ==
    /\ ppc[r] = "classified"
    /\ LET a == Answered(poutcome[r], preq[r].stream)
       IN  CASE a.kind = "error" ->
                  /\ ppc' = [ppc EXCEPT ![r] = "failed"]
                  /\ PRespond(r, a)
             [] a.kind = "stream" ->
                  /\ ppc' = [ppc EXCEPT ![r] = "streaming"]
                  /\ panswer' = [panswer EXCEPT ![r] = a]
                  /\ \E latency \in MiddlewareLatencies :
                        PRecord(<<StreamingRecord,
                                  MiddlewareRecord(a.status, latency)>>)
             [] OTHER ->
                  /\ ppc' = [ppc EXCEPT ![r] = "buffering"]
                  /\ UNCHANGED <<panswer, mVars>>
    /\ UNCHANGED <<preq, padmission, pattempt, plast, pcalls, poutcome, prelayed>>
    /\ UNCHANGED <<rlVars, dVars, sVars, smVars>>
    /\ UNCHANGED pbody

\* lines 693-696: response.json() returns the body, whose "model" is set
\* to the requested id before it is answered; or it raises (the body is not
\* JSON, the read fails), as does the test of line 694 on a body that is a
\* number or null: lines 700-716
PBuffer(r, body) ==
    /\ ppc[r] = "buffering"
    /\ IF body.form \in {"object", "array"}
       THEN /\ ppc' = [ppc EXCEPT ![r] = "completed"]
            /\ pbody' = [pbody EXCEPT ![r] =
                            [upstream |-> body,
                             returned |-> Returned(body, preq[r].model)]]
            /\ PRespond(r, [status |-> 200, kind |-> "json", detail |-> PyNone])
       ELSE /\ ppc' = [ppc EXCEPT ![r] = "failed"]
            /\ pbody' = [pbody EXCEPT ![r] =
                            [upstream |-> body, returned |-> NoBody]]
            /\ PRespond(r, [status |-> 500, kind |-> "error",
                            detail |-> InternalError])
    /\ UNCHANGED <<preq, padmission, pattempt, plast, pcalls, poutcome, prelayed>>
    /\ UNCHANGED <<rlVars, dVars, sVars, smVars>>

\* lines 411-468: process_stream yields a frame to the caller.  Without a
\* response (None) the loop of line 419 raises at once and the frame is
\* the error frame of line 468.
PRelayFrame(r) ==
    /\ ppc[r] = "streaming"
    /\ ~prelayed[r]
    /\ prelayed' = [prelayed EXCEPT ![r] = TRUE]
    /\ UNCHANGED <<preq, ppc, padmission, pattempt, plast, pcalls, poutcome,
                   panswer>>
    /\ UNCHANGED <<rlVars, dVars, mVars, sVars, smVars>>
    /\ UNCHANGED pbody

\* lines 470-473: process_stream ends, or its consumer stops
PStreamEnd(r) ==
    /\ ppc[r] = "streaming"
    /\ ppc' = [ppc EXCEPT ![r] = "completed"]
    /\ UNCHANGED <<preq, padmission, pattempt, plast, pcalls, poutcome, panswer,
                   prelayed>>
    /\ UNCHANGED <<rlVars, dVars, mVars, sVars, smVars>>
    /\ UNCHANGED pbody

PNext ==
    \/ \E r \in Reqs, req \in PRequests : PArrive(r, req)
    \/ \E r \in Reqs : PAdmission(r)
    \/ \E r \in Reqs : PResolve(r)
    \/ \E r \in Reqs, result \in PResults : PAttempt(r, result)
    \/ \E r \in Reqs : PExhausted(r)
    \/ \E r \in Reqs : PAnswer(r)
    \/ \E r \in Reqs, body \in BufferedBodies : PBuffer(r, body)
    \/ \E r \in Reqs : PRelayFrame(r)
    \/ \E r \in Reqs : PStreamEnd(r)

-----------------------------------------------------------------------------
(* StreamProcessor.process_stream: an async generator over the lines of the *)
(* upstream response.  A line is kept as the text left by decode('utf-8')   *)
(* and strip(), with a flag for the surrounding whitespace that strip()     *)
(* removes; a frame is kept as what it was built from.                      *)

\* an upstream line: its kind, its stripped text (for the kinds forwarded as
\* text), whether whitespace surrounds the text, and for a JSON object
\* whether it has a "model" key
Line(kind, text, padded, has_model) ==
    [kind |-> kind, text |-> text, padded |-> padded, has_model |-> has_model]

Lines ==
    { Line("undecodable", "", FALSE, FALSE),  \* bytes that are not UTF-8
      Line("blank", "", FALSE, FALSE),        \* nothing but whitespace
      Line("done", "data: [DONE]", FALSE, FALSE),
      Line("object", "", FALSE, TRUE),        \* data: {"model": ..., ...}
      Line("object", "", FALSE, FALSE),       \* data: {...} without "model"
      Line("scalar", "", FALSE, FALSE),       \* data: 42, data: null
      Line("array", "", FALSE, FALSE) }       \* data: [...]
    \cup {Line("invalid", "data: {oops", pad, FALSE) : pad \in BOOLEAN}
    \cup {Line("other", ": keep-alive", pad, FALSE) : pad \in BOOLEAN}

LineSeqs == UNION {[1..n -> Lines] : n \in 0..MaxLines}

\* a frame: its form, the text or the JSON value it carries, and (history)
\* the number of the upstream line it was built from, 0 for none
Frame(form, text, json, model, from) ==
    [form |-> form, text |-> text, json |-> json, model |-> model, from |-> from]

\* line 425: "\n"
NewlineFrame(i) == Frame("newline", "", "none", "", i)
\* line 431: "data: [DONE]\n\n"
DoneFrame(i) == Frame("done", "data: [DONE]", "none", "", i)
\* lines 446-450: line_str + "\n\n"
TextFrame(text, i) == Frame("text", text, "none", "", i)
\* lines 462-468: the error chunk, of type stream_error, with str(e)
ErrorFrame(exc) == Frame("error", exc, "stream_error", "", 0)

\* line 420: strip() keeps the text and drops the whitespace around it
Strip(line) == line.text

KeepsUpstreamModel(line, id) == IF line.has_model THEN UPSTREAM_MODEL_NAME ELSE ""
\* lines 435-437: the "model" of the chunk after the rewrite, "" for none
RewrittenModel(line, id) == IF line.has_model THEN id ELSE ""

UnparsedDropped(line, i) == <<>>
\* lines 440-446: a payload that json.loads rejects is yielded as it came
Unparsed(line, i) == <<TextFrame(Strip(line), i)>>

\* lines 420-450: what the body of the loop does with line number i: the
\* frames it yields, and whether the loop goes on, breaks or raises
Processed(line, id, i) ==
    CASE line.kind = "undecodable" ->
            [frames |-> <<>>, then |-> "raise", exc |-> "UnicodeDecodeError"]
      [] line.kind = "blank" ->
            [frames |-> <<NewlineFrame(i)>>, then |-> "continue", exc |-> ""]
      [] line.kind = "done" ->
            [frames |-> <<DoneFrame(i)>>, then |-> "break", exc |-> ""]
      [] line.kind = "object" ->
            [frames |-> <<Frame("json", "", "object", RewrittenModel(line, id), i)>>,
             then |-> "continue", exc |-> ""]
      [] line.kind = "array" ->
            \* "model" in a list is a search among its items
            [frames |-> <<Frame("json", "", "array", "", i)>>,
             then |-> "continue", exc |-> ""]
      [] line.kind = "scalar" ->
            \* "model" in a number or in None raises TypeError
            [frames |-> <<>>, then |-> "raise", exc |-> "TypeError"]
      [] line.kind = "invalid" ->
            [frames |-> Unparsed(line, i), then |-> "continue", exc |-> ""]
      [] OTHER ->
            [frames |-> <<TextFrame(Strip(line), i)>>, then |-> "continue",
             exc |-> ""]

CaughtAll(exc) == TRUE
\* line 457: except Exception.  CancelledError and GeneratorExit derive from
\* BaseException only and pass through.
Caught(exc) == exc \notin {"CancelledError", "GeneratorExit"}

FinallyLeavesOpen == UNCHANGED closed
\* lines 470-473: the finally clause
Finally == IF sresponse = "live" THEN closed' = TRUE ELSE UNCHANGED closed

SInit ==
    /\ requested_model_id \in PersonaIds
    /\ \/ /\ sresponse = "live"
          /\ upstream \in LineSeqs
          /\ ending \in {"eof", "failure"}
       \/ /\ sresponse = "None"
          /\ upstream = <<>>
          /\ ending = "eof"
    /\ spc = "created"
    /\ spos = 0
    /\ frames = <<>>
    /\ closed = FALSE

SRaiseSilent(exc) ==
    /\ frames' = frames
    /\ spc' = IF Caught(exc) THEN "yielded_error" ELSE "cancelled"
    /\ IF Caught(exc) THEN UNCHANGED closed ELSE Finally

\* lines 454-468: exception exc is raised inside the try block
SRaise(exc) ==
    IF Caught(exc)
    THEN /\ frames' = Append(frames, ErrorFrame(exc))
         /\ spc' = "yielded_error"
         /\ UNCHANGED closed
    ELSE /\ frames' = frames
         /\ spc' = "cancelled"
         /\ Finally

\* the consumer asks for the first frame and the body is entered; without a
\* response, line 419 raises AttributeError
SStart ==
    /\ spc = "created"
    /\ IF sresponse = "live"
       THEN spc' = "running" /\ UNCHANGED <<frames, closed>>
       ELSE SRaise("AttributeError")
    /\ UNCHANGED <<requested_model_id, sresponse, upstream, ending, spos>>
    /\ UNCHANGED <<rlVars, dVars, mVars, pVars, smVars>>

\* lines 419-450: the loop takes the next line and the consumer takes what
\* the body yields for it
SLine ==
    /\ spc = "running"
    /\ spos < Len(upstream)
    /\ spos' = spos + 1
    /\ LET did == Processed(upstream[spos + 1], requested_model_id, spos + 1)
       IN  IF did.then = "raise" THEN SRaise(did.exc)
           ELSE /\ frames' = frames \o did.frames
                /\ spc' = IF did.then = "break" THEN "yielded_done" ELSE "running"
                /\ UNCHANGED closed
    /\ UNCHANGED <<requested_model_id, sresponse, upstream, ending>>
    /\ UNCHANGED <<rlVars, dVars, mVars, pVars, smVars>>

\* line 419 after the last line: the body ends and so does the loop, or the
\* read raises (aiohttp.ClientPayloadError, asyncio.TimeoutError)
SEnd ==
    /\ spc = "running"
    /\ spos = Len(upstream)
    /\ IF ending = "eof"
       THEN /\ spc' = "finished"
            /\ Finally
            /\ UNCHANGED frames
       ELSE SRaise("ClientPayloadError")
    /\ UNCHANGED <<requested_model_id, sresponse, upstream, ending, spos>>
    /\ UNCHANGED <<rlVars, dVars, mVars, pVars, smVars>>

\* the consumer asks for the frame after the sentinel (line 432: break) or
\* after the error frame (the handler ends): the finally clause runs and
\* the generator is exhausted.  Without a response the finally clause
\* raises AttributeError itself.
SResume ==
    /\ spc \in {"yielded_done", "yielded_error"}
    /\ spc' = IF sresponse = "live" THEN "finished" ELSE "crashed"
    /\ Finally
    /\ UNCHANGED <<requested_model_id, sresponse, upstream, ending, spos, frames>>
    /\ UNCHANGED <<rlVars, dVars, mVars, pVars, smVars>>

\* the consumer stops: the task is cancelled while the generator awaits a
\* line (CancelledError, lines 454-456), or the generator is closed where it
\* is suspended at a yield (GeneratorExit)
SCancel(exc) ==
    /\ \/ spc = "running"
       \/ spc \in {"yielded_done", "yielded_error"} /\ exc = "GeneratorExit"
    /\ SRaise(exc)
    /\ UNCHANGED <<requested_model_id, sresponse, upstream, ending, spos>>
    /\ UNCHANGED <<rlVars, dVars, mVars, pVars, smVars>>

\* the consumer drops the generator before it asked for a frame: the body,
\* and with it the finally clause, never runs
SDiscard ==
    /\ spc = "created"
    /\ spc' = "discarded"
    /\ UNCHANGED <<requested_model_id, sresponse, upstream, ending, spos, frames,
                   closed>>
    /\ UNCHANGED <<rlVars, dVars, mVars, pVars, smVars>>

SNext ==
    \/ SStart
    \/ SLine
    \/ SEnd
    \/ SResume
    \/ \E exc \in {"CancelledError", "GeneratorExit"} : SCancel(exc)
    \/ SDiscard

\* the stream variables of a system in which nothing is relayed
SIdle ==
    /\ requested_model_id = "luminary/socrates"
    /\ sresponse = "None"
    /\ upstream = <<>>
    /\ ending = "eof"
    /\ spc = "idle"
    /\ spos = 0
    /\ frames = <<>>
    /\ closed = FALSE

-----------------------------------------------------------------------------
(* Configuration._validate and HTTPSessionManager.  get_session and close   *)
(* hold the manager's lock from their first statement to their last; their  *)
(* bodies are taken statement by statement, so that it is the lock that     *)
(* keeps them apart.                                                        *)

\* the values of REQUEST_TIMEOUT the environment may give
RequestTimeouts == {0, 1, CONNECT_TIMEOUT, CONNECT_TIMEOUT + 1, 60}

\* lines 115-116: REQUEST_TIMEOUT < 1 raises ValueError
Accepted(timeout) == ~(timeout < 1)

\* lines 276-280: aiohttp.ClientTimeout(total, connect, sock_read)
ClientTimeout(timeout) ==
    [total |-> timeout, connect |-> CONNECT_TIMEOUT, sock_read |-> timeout]

NoTimeout == [total |-> 0, connect |-> 0, sock_read |-> 0]

SessionLockIgnored == TRUE
\* lines 267, 290: async with self.lock
SessionLockFree == slock = 0

NeedsClientIfNone == session = 0
\* line 268: self.session is None or self.session.closed
NeedsClient == session = 0 \/ session \notin sopen

\* line 291: self.session and not self.session.closed
HasOpenClient == session # 0 /\ session \in sopen

SMCalls == {c \in Calls : smpc[c] # "idle"}

SMInit ==
    /\ REQUEST_TIMEOUT \in RequestTimeouts
    /\ configured = "unvalidated"
    /\ session = 0
    /\ sopen = {}
    /\ made = 0
    /\ stimeout = NoTimeout
    /\ slock = 0
    /\ smpc = [c \in Calls |-> "idle"]
    /\ smop = [c \in Calls |-> "get"]
    /\ smbefore = [c \in Calls |-> <<0, {}, 0>>]
    /\ smconc = [c \in Calls |-> FALSE]
    /\ smlog = <<>>

\* lines 105-120, 506-510: the module builds its Configuration, which
\* validates itself, before it builds the HTTPSessionManager
Validate ==
    /\ configured = "unvalidated"
    /\ configured' = IF Accepted(REQUEST_TIMEOUT) THEN "accepted" ELSE "rejected"
    /\ UNCHANGED <<REQUEST_TIMEOUT, session, sopen, made, stimeout, slock, smpc,
                   smop, smbefore, smconc, smlog>>
    /\ UNCHANGED <<rlVars, dVars, mVars, pVars, sVars>>

\* lines 265-267, 288-290: a call of get_session or close begins and waits
\* for the lock.  A new call takes the lowest free slot.
SMCall(c, op) ==
    /\ configured = "accepted"
    /\ smpc[c] = "idle"
    /\ \A d \in 1..(c - 1) : smpc[d] # "idle"
    /\ Len(smlog) + Cardinality(SMCalls) < MaxCalls
    /\ smpc' = [smpc EXCEPT ![c] = "waiting"]
    /\ smop' = [smop EXCEPT ![c] = op]
    /\ smconc' = [d \in Calls |->
                    IF SMCalls # {} /\ (d = c \/ d \in SMCalls) THEN TRUE
                    ELSE IF d = c THEN FALSE ELSE smconc[d]]
    /\ UNCHANGED <<REQUEST_TIMEOUT, configured, session, sopen, made, stimeout,
                   slock, smbefore, smlog>>
    /\ UNCHANGED <<rlVars, dVars, mVars, pVars, sVars>>

\* lines 267, 290: the lock is taken
SMAcquire(c) ==
    /\ smpc[c] = "waiting"
    /\ SessionLockFree
    /\ slock' = c
    /\ smbefore' = [smbefore EXCEPT ![c] = <<session, sopen, made>>]
    /\ smpc' = [smpc EXCEPT ![c] = "locked"]
    /\ UNCHANGED <<REQUEST_TIMEOUT, configured, session, sopen, made, stimeout,
                   smop, smconc, smlog>>
    /\ UNCHANGED <<rlVars, dVars, mVars, pVars, sVars>>

\* line 268: the test of get_session
SMTest(c) ==
    /\ smpc[c] = "locked"
    /\ smop[c] = "get"
    /\ smpc' = [smpc EXCEPT ![c] = IF NeedsClient THEN "building" ELSE "returning"]
    /\ UNCHANGED <<REQUEST_TIMEOUT, configured, session, sopen, made, stimeout,
                   slock, smop, smbefore, smconc, smlog>>
    /\ UNCHANGED <<rlVars, dVars, mVars, pVars, sVars>>

\* lines 269-285: a new client is constructed and kept
SMBuild(c) ==
    /\ smpc[c] = "building"
    /\ made' = made + 1
    /\ session' = made + 1
    /\ sopen' = sopen \cup {made + 1}
    /\ stimeout' = ClientTimeout(REQUEST_TIMEOUT)
    /\ smpc' = [smpc EXCEPT ![c] = "returning"]
    /\ UNCHANGED <<REQUEST_TIMEOUT, configured, slock, smop, smbefore, smconc,
                   smlog>>
    /\ UNCHANGED <<rlVars, dVars, mVars, pVars, sVars>>

\* the entry of the log for a call that returns now
Returning(c) ==
    [op |-> smop[c], client |-> session, open |-> session \in sopen,
     overlapped |-> smconc[c],
     unchanged |-> smbefore[c] = <<session, sopen, made>>]

\* line 286, and the end of close: the call returns and releases the lock
SMReturn(c) ==
    /\ smpc[c] = "returning"
    /\ smlog' = Append(smlog, Returning(c))
    /\ slock' = IF slock = c THEN 0 ELSE slock
    /\ smpc' = [smpc EXCEPT ![c] = "idle"]
    /\ smconc' = [smconc EXCEPT ![c] = FALSE]
    /\ smbefore' = [smbefore EXCEPT ![c] = <<0, {}, 0>>]
    /\ UNCHANGED <<REQUEST_TIMEOUT, configured, session, sopen, made, stimeout,
                   smop>>
    /\ UNCHANGED <<rlVars, dVars, mVars, pVars, sVars>>

\* line 291: the test of close; without an open client close has nothing
\* left to do
SMCloseTest(c) ==
    /\ smpc[c] = "locked"
    /\ smop[c] = "close"
    /\ smpc' = [smpc EXCEPT ![c] = IF HasOpenClient THEN "closing" ELSE "returning"]
    /\ UNCHANGED <<REQUEST_TIMEOUT, configured, session, sopen, made, stimeout,
                   slock, smop, smbefore, smconc, smlog>>
    /\ UNCHANGED <<rlVars, dVars, mVars, pVars, sVars>>

\* lines 292-293: await self.session.close(), then the sleep
SMClose(c) ==
    /\ smpc[c] = "closing"
    /\ sopen' = sopen \ {session}
    /\ smpc' = [smpc EXCEPT ![c] = "returning"]
    /\ UNCHANGED <<REQUEST_TIMEOUT, configured, session, made, stimeout, slock,
                   smop, smbefore, smconc, smlog>>
    /\ UNCHANGED <<rlVars, dVars, mVars, pVars, sVars>>

SMNext ==
    \/ Validate
    \/ \E c \in Calls, op \in {"get", "close"} : SMCall(c, op)
    \/ \E c \in Calls : SMAcquire(c)
    \/ \E c \in Calls : SMTest(c)
    \/ \E c \in Calls : SMBuild(c)
    \/ \E c \in Calls : SMReturn(c)
    \/ \E c \in Calls : SMCloseTest(c)
    \/ \E c \in Calls : SMClose(c)

\* the session manager of a system in which no session is asked for, with
\* the default REQUEST_TIMEOUT (line 81)
SMIdle ==
    /\ SMInit
    /\ REQUEST_TIMEOUT = 60

-----------------------------------------------------------------------------
(* Specifications *)

\* the dispatch variables, but for MAX_RETRIES, of a system in which
\* proxy_chat_completion is not followed step by step
DQuiet ==
    /\ RETRY_DELAY = 1
    /\ chat_request = [model |-> "luminary/socrates",
                       messages |-> <<[role |-> "user", content |-> "hello"]>>,
                       stream |-> FALSE]
    /\ request_data = [model |-> chat_request.model,
                       messages |-> chat_request.messages]
    /\ dpc = "idle"
    /\ attempt = 0
    /\ last_exception = "None"
    /\ sent = <<>>
    /\ waits = <<>>
    /\ results = <<>>
    /\ response = NoResponse
    /\ outcome = [response |-> "None", error |-> PyNone]
    /\ answer = [status |-> 0, kind |-> "none", detail |-> PyNone]

\* the dispatch variables of a system in which no request is dispatched
DIdle == MAX_RETRIES = MaxRetries /\ DQuiet

\* the rate limiter of a system in which no admission check is made
RLIdle == RLInit /\ rate_per_minute = MaxRate

\* concurrent check_rate_limit calls on a shared RateLimiter
InitRateLimiter == RLInit /\ DIdle /\ MInit /\ PInit /\ SIdle /\ SMIdle
SpecRateLimiter == InitRateLimiter /\ [][RLNext]_vars

\* one request from proxy_chat_completion to the answer
InitDispatch == DInit /\ RLIdle /\ MInit /\ PInit /\ SIdle /\ SMIdle
SpecDispatch == InitDispatch /\ [][DNext]_vars

\* record_request and get_metrics calls on a shared MetricsCollector
InitMetrics == MInit /\ RLIdle /\ DIdle /\ PInit /\ SIdle /\ SMIdle
SpecMetrics == InitMetrics /\ [][MNext]_vars

\* the configuration the pipeline is run with: a window of one request per
\* key, and no upstream attempt at all or at most two
PConfigured ==
    /\ RLInit
    /\ rate_per_minute = 1
    /\ MAX_RETRIES \in {0, 2}
    /\ DQuiet

\* concurrent get_session and close calls on a shared HTTPSessionManager
InitSession == SMInit /\ RLIdle /\ DIdle /\ MInit /\ PInit /\ SIdle
SpecSession == InitSession /\ [][SMNext]_vars

\* one relay of process_stream, from its creation to its end
InitStream == SInit /\ RLIdle /\ DIdle /\ MInit /\ PInit /\ SMIdle
SpecStream == InitStream /\ [][SNext]_vars

\* concurrent requests through request_middleware and create_chat_completion
InitPipeline == PInit /\ PConfigured /\ MInit /\ SIdle /\ SMIdle
SpecPipeline == InitPipeline /\ [][PNext]_vars

-----------------------------------------------------------------------------
(* Properties of the RateLimiter, stated over the log of returned calls *)

ReturnedCalls == 1..Len(history)

\* the earlier calls of the same key
EarlierSameKey(i) == {j \in 1..(i - 1) : history[j].key = history[i].key}

\* the earlier admitted calls of the same key that lie in the 60-second
\* window trailing call i
AdmittedInWindow(i) ==
    {j \in EarlierSameKey(i) :
        history[j].allowed /\ history[i].time - history[j].time < 60}

\* the earlier calls of the same key made at the same instant as call i
SameInstant(i) == {j \in EarlierSameKey(i) : history[j].time = history[i].time}

\* C1: a call is allowed exactly when fewer than rate_per_minute admitted
\* calls of its key lie in its trailing 60-second window, so of the calls of
\* one window the first L are allowed and every further one is denied; calls
\* at one instant are counted one by one (with nothing admitted earlier in
\* the window, the first L calls of an instant are allowed and the rest denied).
C1_WindowAdmitsFirstL ==
    \A i \in ReturnedCalls :
        /\ history[i].allowed <=> Cardinality(AdmittedInWindow(i)) < rate_per_minute
        /\ (\A j \in AdmittedInWindow(i) : history[j].time = history[i].time)
              => (history[i].allowed <=> Cardinality(SameInstant(i)) < rate_per_minute)

\* L + 1 calls at one instant: L allowed, the last one denied
C1_Witness ==
    /\ rate_per_minute >= 2
    /\ \E i \in ReturnedCalls :
          /\ ~history[i].allowed
          /\ Cardinality(SameInstant(i)) = rate_per_minute
          /\ \A j \in SameInstant(i) : history[j].allowed

\* C2: once a key has been denied, a call made when every admitted timestamp
\* of the key is 60 seconds old or older (exactly 60 included) is allowed.
C2_AdmittedAgainAfterWindow ==
    \A i \in ReturnedCalls :
        ( /\ \E j \in EarlierSameKey(i) : ~history[j].allowed
          /\ \E j \in EarlierSameKey(i) : history[j].allowed
          /\ \A j \in EarlierSameKey(i) :
                history[j].allowed => history[i].time - history[j].time >= 60 )
        => history[i].allowed

\* a key was exhausted and is admitted again exactly 60 seconds later
C2_Witness ==
    \E i \in ReturnedCalls :
        /\ history[i].allowed
        /\ \E j \in EarlierSameKey(i) : ~history[j].allowed
        /\ \E j \in EarlierSameKey(i) :
              history[j].allowed /\ history[i].time - history[j].time = 60
        /\ \A j \in EarlierSameKey(i) :
              history[j].allowed => history[i].time - history[j].time >= 60

Min2(a, b) == IF a <= b THEN a ELSE b
Max2(a, b) == IF a >= b THEN a ELSE b

\* the calls of key k made at instant t, and those of them that were allowed
Batch(k, t) == {i \in ReturnedCalls : history[i].key = k /\ history[i].time = t}
BatchAllowed(k, t) == {i \in Batch(k, t) : history[i].allowed}

\* the slots of key k still free at instant t: the limit less the calls
\* admitted at earlier instants of the window
SlotsLeft(k, t) ==
    Max2(0, rate_per_minute
            - Cardinality({j \in ReturnedCalls :
                              /\ history[j].key = k
                              /\ history[j].allowed
                              /\ history[j].time < t
                              /\ t - history[j].time < 60}))

InCriticalSection == {c \in Calls : rlpc[c] \in {"locked", "pruned", "checked"}}

\* C3: the prune-check-append sections of concurrent calls never overlap, and
\* of n calls of one key at one instant with k slots left exactly min(n, k)
\* are allowed; a key never holds more than rate_per_minute timestamps.
C3_AtomicCheckAndAppend ==
    /\ Cardinality(InCriticalSection) <= 1
    /\ \A k \in Keys : Len(requests[k]) <= rate_per_minute
    /\ \A i \in ReturnedCalls :
          LET k == history[i].key
              t == history[i].time
          IN  Cardinality(BatchAllowed(k, t))
                  = Min2(Cardinality(Batch(k, t)), SlotsLeft(k, t))

\* two calls of one key were waiting for the lock together with one slot
\* left: one got it, the other was denied
C3_Witness ==
    \E i, j \in ReturnedCalls :
        /\ i < j
        /\ history[i].key = history[j].key
        /\ history[i].time = history[j].time
        /\ history[i].contended
        /\ history[i].allowed
        /\ ~history[j].allowed
        /\ SlotsLeft(history[i].key, history[i].time) = 1

\* C4: a call that returns False leaves under its key exactly the unexpired
\* timestamps the key had before the call and touches no other key; every
\* stored timestamp is that of an admitted call, so denied attempts never
\* postpone the moment the key is admitted again.
C4_DeniedRecordsNothing ==
    /\ [](\A k \in Keys : \A n \in 1..Len(requests[k]) :
            \E j \in ReturnedCalls :
                /\ history[j].key = k
                /\ history[j].allowed
                /\ history[j].time = requests[k][n])
    /\ [][\A c \in Calls :
            (rlpc[c] = "checked" /\ rlfull[c] /\ rlpc'[c] = "idle")
            => /\ requests'[rlkey[c]]
                    = SelectSeq(rlbefore[c], LAMBDA ts : rlnow[c] - ts < 60)
               /\ \A k \in Keys \ {rlkey[c]} : requests'[k] = requests[k]]_vars

\* a key has been denied twice in a row and still holds only the timestamp
\* of its one admitted call
C4_Witness ==
    \E i, j \in ReturnedCalls :
        /\ i < j
        /\ history[i].key = history[j].key
        /\ ~history[i].allowed
        /\ ~history[j].allowed
        /\ Len(requests[history[i].key]) = 1
        /\ \E a \in EarlierSameKey(i) :
              history[a].allowed /\ requests[history[i].key] = <<history[a].time>>

-----------------------------------------------------------------------------
(* Properties of the dispatch *)

Attempts == 1..Len(results)

TransportFailure(r) == r.kind \in {"timeout", "client"}

GotResponse == response.kind = "response"

DispatchReturned == dpc \in {"classified", "answered"}

\* C5: when an attempt returns a response after k attempts that failed with
\* a timeout or a connection failure, k < MAX_RETRIES, exactly k + 1 upstream
\* calls were made and the waits between them were RETRY_DELAY * 2^0, ...,
\* RETRY_DELAY * 2^(k-1) in that order; a response of status below 400 is
\* returned as the live response with no error.
C5_BackoffThenResponse ==
    GotResponse =>
        LET k == Len(results) - 1
        IN  /\ results[k + 1] = response
            /\ \A i \in 1..k : TransportFailure(results[i])
            /\ k < MAX_RETRIES
            /\ Len(sent) = k + 1
            /\ Len(waits) = k
            /\ \A i \in 1..k : waits[i] = RETRY_DELAY * 2^(i - 1)
            /\ (DispatchReturned /\ response.status < 400)
                  => outcome = [response |-> "live", error |-> PyNone]

\* N = 3: two failed attempts, waits base and 2 * base, then the live response
C5_Witness ==
    /\ MAX_RETRIES = 3
    /\ RETRY_DELAY = 2
    /\ Len(results) = 3
    /\ TransportFailure(results[1])
    /\ TransportFailure(results[2])
    /\ waits = <<2, 4>>
    /\ Len(sent) = 3
    /\ dpc = "classified"
    /\ outcome.response = "live"

\* C6: an attempt that returned a response of status 400 or above is the
\* last attempt of its dispatch: no call follows it and no wait, so a first
\* attempt that returns one leaves exactly one upstream call.
C6_ErrorStatusNotRetried ==
    \A i \in Attempts :
        (results[i].kind = "response" /\ results[i].status >= 400)
        => /\ i = Len(results)
           /\ Len(sent) = i
           /\ Len(waits) = i - 1
           /\ response = results[i]
           /\ dpc \in {"responded", "classified", "answered"}

\* the first attempt returned status 503 with retries left, and the request
\* was answered after that one call
C6_Witness ==
    /\ MAX_RETRIES = 3
    /\ Len(results) = 1
    /\ results[1].kind = "response"
    /\ results[1].status = 503
    /\ Len(sent) = 1
    /\ dpc = "answered"

ErrorIs(error, type, code) ==
    /\ error.kind = "dict"
    /\ error.top = {"error"}
    /\ error.ekind = "dict"
    /\ error.keys = {"message", "type", "code"}
    /\ error.type = type
    /\ error.code = code

\* C7: a dispatch that got no response returns no response and an error:
\* timeout_error/504 when all N attempts timed out, connection_error/502 when
\* all N attempts failed to connect, internal_error/500 when an attempt
\* raised any other exception.
C7_NoResponseClassified ==
    (DispatchReturned /\ ~GotResponse) =>
        /\ outcome.response = "None"
        /\ ( /\ Len(results) = MAX_RETRIES
             /\ MAX_RETRIES >= 1
             /\ \A i \in Attempts : results[i].kind = "timeout" )
           => ErrorIs(outcome.error, "timeout_error", 504)
        /\ ( /\ Len(results) = MAX_RETRIES
             /\ MAX_RETRIES >= 1
             /\ \A i \in Attempts : results[i].kind = "client" )
           => ErrorIs(outcome.error, "connection_error", 502)
        /\ ( /\ Len(results) >= 1
             /\ results[Len(results)].kind = "other" )
           => ErrorIs(outcome.error, "internal_error", 500)

\* three timeouts out of three attempts, classified as timeout_error/504
C7_Witness ==
    /\ MAX_RETRIES = 3
    /\ Len(results) = 3
    /\ \A i \in Attempts : results[i].kind = "timeout"
    /\ dpc = "classified"
    /\ ErrorIs(outcome.error, "timeout_error", 504)
    /\ outcome.response = "None"

\* C8: for every upstream response of status s >= 400 the dispatch returns an
\* error of type upstream_error and code s, and the caller is answered with
\* status s.
C8_UpstreamErrorKeepsStatus ==
    (DispatchReturned /\ GotResponse /\ response.status >= 400) =>
        /\ ErrorIs(outcome.error, "upstream_error", response.status)
        /\ dpc = "answered" => answer.status = response.status

\* C9: every body the upstream receives names the configured upstream model,
\* on every attempt, whatever model the caller named; the caller's model is
\* left as the persona to use.
C9_UpstreamModelOnEveryAttempt ==
    /\ \A i \in 1..Len(sent) : sent[i].model = UPSTREAM_MODEL_NAME
    /\ chat_request.model \in PersonaIds
    /\ dpc # "start" => request_data.model = UPSTREAM_MODEL_NAME

\* a second attempt was sent for a caller that named luminary/confucius
C9_Witness ==
    /\ chat_request.model = "luminary/confucius"
    /\ Len(sent) >= 2
    /\ sent[2].model = "promptshield/gemini-flash-lite-latest"

CallerHasSystem ==
    \E j \in 1..Len(chat_request.messages) : chat_request.messages[j].role = "system"

\* C10: the message list the upstream receives is the caller's list, with one
\* system message holding the persona's prompt put in front of it when the
\* caller's list has no system message, and nothing added when it has one at
\* any position.
C10_PersonaPrependedIfNoSystem ==
    \A i \in 1..Len(sent) :
        LET out == sent[i].messages
            inp == chat_request.messages
        IN  IF CallerHasSystem
            THEN out = inp
            ELSE /\ Len(out) = Len(inp) + 1
                 /\ out[1].role = "system"
                 /\ out[1].content = SystemPrompt(chat_request.model)
                 /\ \A j \in 1..Len(inp) : out[j + 1] = inp[j]

\* a list of two messages without a system message went out with the
\* prompt of Confucius in front
C10_Witness ==
    /\ Len(sent) >= 1
    /\ ~CallerHasSystem
    /\ Len(chat_request.messages) = 2
    /\ chat_request.model = "luminary/confucius"
    /\ Len(sent[1].messages) = 3
    /\ sent[1].messages[1].content = "PRE_INSTRUCTIONS + BIOGRAPHY of Confucius"

-----------------------------------------------------------------------------
(* Properties of the request pipeline *)

Answered429(r) ==
    /\ panswer[r].status = 429
    /\ panswer[r].kind = "error"
    /\ ErrorIs(panswer[r].detail, "rate_limit_error", 429)

Answered404(r) ==
    /\ panswer[r].status = 404
    /\ panswer[r].kind = "error"
    /\ ErrorIs(panswer[r].detail, "invalid_request_error", 404)

HasAnswer(r) == panswer[r].kind # "none"

UnknownModel(r) == ppc[r] # "idle" /\ preq[r].model \notin PersonaIds

\* C11, as stated: every answered request whose model is not a registered
\* persona id is answered 404 invalid_request_error, and no upstream call
\* is made for it.
C11_UnknownModelAnswered404 ==
    \A r \in Reqs :
        UnknownModel(r) =>
            /\ pcalls[r] = 0
            /\ HasAnswer(r) => Answered404(r)

\* C11, amended: no upstream call is ever made for a request whose model is
\* not a registered persona id (exact match); the request is answered 404
\* invalid_request_error if its admission check allowed it, and 429
\* rate_limit_error if the check, which comes first, denied it.
C11_AdmittedUnknownModelAnswered404 ==
    \A r \in Reqs :
        UnknownModel(r) =>
            /\ pcalls[r] = 0
            /\ ppc[r] \notin {"dispatching", "classified", "buffering",
                              "streaming", "completed", "failed"}
            /\ HasAnswer(r) =>
                  IF padmission[r] = "allowed" THEN Answered404(r)
                  ELSE Answered429(r)

\* an admitted request for "luminary/Socrates" was answered 404 while a
\* request for "luminary/socrates" was dispatched
C11_Witness ==
    \E r, q \in Reqs :
        /\ UnknownModel(r)
        /\ padmission[r] = "allowed"
        /\ Answered404(r)
        /\ pcalls[q] > 0

\* C12: a request whose admission check is denied is answered 429
\* rate_limit_error, and no upstream call is ever made for it.
C12_DeniedAnswered429 ==
    \A r \in Reqs :
        padmission[r] = "denied" =>
            /\ ppc[r] = "rejected"
            /\ Answered429(r)
            /\ pcalls[r] = 0

\* a request for a registered persona was denied while the request that
\* filled the window of its key was being dispatched
C12_Witness ==
    \E r, q \in Reqs :
        /\ padmission[r] = "denied"
        /\ preq[r].model \in PersonaIds
        /\ Answered429(r)
        /\ preq[q].key = preq[r].key
        /\ pcalls[q] > 0

\* C13: within one request, under any interleaving with other requests, the
\* admission check has completed and allowed the request before its first
\* upstream attempt starts, and its dispatch has completed with a live
\* response before its first stream frame is relayed.
C13_AdmissionThenDispatchThenRelay ==
    \A r \in Reqs :
        /\ pcalls[r] > 0 => padmission[r] = "allowed"
        /\ prelayed[r] =>
              /\ ppc[r] \in {"streaming", "completed"}
              /\ poutcome[r].response = "live"

\* the state of a request in the terms of the lifecycle: Initial, Admitted,
\* Dispatched, Streaming, Buffered, Completed, Rejected, Failed -- and
\* NotFound, the end of an admitted request for an unknown persona
PState(r) ==
    CASE ppc[r] \in {"idle", "received"} -> "Initial"
      [] ppc[r] = "admitted" -> "Admitted"
      [] ppc[r] \in {"dispatching", "classified"} -> "Dispatched"
      [] ppc[r] = "streaming" -> "Streaming"
      [] ppc[r] = "buffering" -> "Buffered"
      [] ppc[r] = "completed" -> "Completed"
      [] ppc[r] = "rejected" -> "Rejected"
      [] ppc[r] = "not_found" -> "NotFound"
      [] OTHER -> "Failed"

StatedEdges ==
    {<<"Initial", "Admitted">>, <<"Initial", "Rejected">>,
     <<"Admitted", "Dispatched">>,
     <<"Dispatched", "Streaming">>, <<"Dispatched", "Buffered">>,
     <<"Dispatched", "Failed">>,
     <<"Streaming", "Completed">>, <<"Buffered", "Completed">>}

KeyWindowFull(r) ==
    WindowFull(Pruned(requests[preq[r].key], WindowStart(now)))

-----------------------------------------------------------------------------
(* Properties of process_stream *)

FrameNumbers == 1..Len(frames)

LastFrame == frames[Len(frames)]

\* C15: every frame built from an upstream JSON object that has a model
\* field carries the requested persona id as its model, never the upstream
\* model name; the sentinel [DONE] is forwarded unchanged, it is the last
\* frame, and no line that follows it upstream is taken.
C15_ModelRewrittenAndSentinelLast ==
    /\ \A j \in FrameNumbers :
          (frames[j].from > 0 /\ upstream[frames[j].from].kind = "object"
             /\ upstream[frames[j].from].has_model) =>
              /\ frames[j].form = "json"
              /\ frames[j].model = requested_model_id
              /\ frames[j].model # UPSTREAM_MODEL_NAME
    /\ \A i \in 1..spos :
          upstream[i].kind = "done" =>
              /\ spos = i
              /\ LastFrame.form = "done"
              /\ LastFrame.text = upstream[i].text
              /\ LastFrame.from = i

\* a finished relay rewrote the model of an object and ended on the sentinel
\* while the upstream had another line to deliver
C15_Witness ==
    /\ spc = "finished"
    /\ \E j \in FrameNumbers :
          /\ frames[j].form = "json"
          /\ upstream[frames[j].from].has_model
          /\ frames[j].model = requested_model_id
    /\ LastFrame.form = "done"
    /\ spos < Len(upstream)

\* C16: when the loop takes a data line whose payload is not JSON, it yields
\* one more frame, which carries the text of the line (without the
\* whitespace around it), and goes on with the next line.
C16_InvalidJsonForwarded ==
    [][(spos' = spos + 1 /\ upstream[spos'].kind = "invalid") =>
          /\ Len(frames') = Len(frames) + 1
          /\ SubSeq(frames', 1, Len(frames)) = frames
          /\ frames'[Len(frames')].form = "text"
          /\ frames'[Len(frames')].text = upstream[spos'].text
          /\ frames'[Len(frames')].from = spos'
          /\ spc' = "running"]_vars

\* a line that is not JSON, with whitespace around it, was forwarded and a
\* frame of a later line followed it
C16_Witness ==
    \E j, k \in FrameNumbers :
        /\ j < k
        /\ frames[j].form = "text"
        /\ upstream[frames[j].from].kind = "invalid"
        /\ upstream[frames[j].from].padded
        /\ frames[k].from > frames[j].from

\* C17: a relay that ended without the consumer stopping it ended with a
\* last frame that is the sentinel or an error frame, however the upstream
\* ended.
C17_EndsWithSentinelOrError ==
    spc \in {"finished", "crashed"} =>
        /\ Len(frames) > 0
        /\ LastFrame.form \in {"done", "error"}

C19_ReadFailureOneErrorFrame ==
    /\ [](\A j \in FrameNumbers :
             frames[j].form = "error" =>
                 /\ j = Len(frames)
                 /\ frames[j].json = "stream_error")
    /\ [][(/\ spc = "running" /\ spos = Len(upstream) /\ ending = "failure"
           /\ spc' = "yielded_error") =>
             /\ Len(frames') = Len(frames) + 1
             /\ SubSeq(frames', 1, Len(frames)) = frames
             /\ frames'[Len(frames')].form = "error"
             /\ frames'[Len(frames')].json = "stream_error"]_vars

\* a relay of two frames or more failed on a read and finished on the error
\* frame
C19_Witness ==
    /\ spc = "finished"
    /\ ending = "failure"
    /\ spos = Len(upstream)
    /\ Len(frames) >= 3
    /\ LastFrame.form = "error"
    /\ LastFrame.text = "ClientPayloadError"
    /\ \A j \in 1..(Len(frames) - 1) : frames[j].form # "error"

-----------------------------------------------------------------------------
(* Properties of the MetricsCollector, stated over the log of the calls *)

\* the record_request calls made before the last get_metrics call
RecordedAtSnapshot == SubSeq(recorded, 1, snapshot.at)

RECURSIVE SumLatency(_)
SumLatency(calls) ==
    IF calls = <<>> THEN 0
    ELSE calls[Len(calls)].latency + SumLatency(SubSeq(calls, 1, Len(calls) - 1))

ErrorCalls(calls) == Cardinality({i \in 1..Len(calls) : calls[i].is_error})

\* q is n / d rounded to a whole number
IsRounded(q, n, d) == 2 * q * d - 2 * n <= d /\ 2 * n - 2 * q * d <= d

\* C20, as stated: get_metrics reports a count equal to the number of
\* record_request calls, an error count equal to the number of calls with
\* is_error true, an average latency equal to the sum of the latencies
\* divided by the count and an error rate equal to the error count divided
\* by the count.
C20_MetricsAreExactRatios ==
    snapshot.taken =>
        LET calls == RecordedAtSnapshot
        IN  /\ snapshot.total_requests = Len(calls)
            /\ snapshot.total_errors = ErrorCalls(calls)
            /\ snapshot.average_latency * Len(calls) = SumLatency(calls)
            /\ snapshot.error_rate * Len(calls) = THOUSANDTHS * ErrorCalls(calls)

\* C20, amended: get_metrics reports a count equal to the number of
\* record_request calls, an error count equal to the number of calls with
\* is_error true, and an average latency and an error rate that are the sum
\* of the latencies and the error count, divided by the count and rounded
\* to three decimals (to a millisecond, to a thousandth), both 0 for a
\* count of 0; after a success of 0.2 s and an error of 0.4 s it reports
\* count 2, errors 1, average 0.3 s and error rate 0.5.
C20_MetricsAreRoundedRatios ==
    snapshot.taken =>
        LET calls == RecordedAtSnapshot
        IN  /\ snapshot.total_requests = Len(calls)
            /\ snapshot.total_errors = ErrorCalls(calls)
            /\ IF calls = <<>>
               THEN snapshot.average_latency = 0 /\ snapshot.error_rate = 0
               ELSE /\ IsRounded(snapshot.average_latency, SumLatency(calls),
                                 Len(calls))
                    /\ IsRounded(snapshot.error_rate,
                                 THOUSANDTHS * ErrorCalls(calls), Len(calls))
            /\ (/\ Len(calls) = 2
                /\ calls[1].latency = 200 /\ ~calls[1].is_error
                /\ calls[2].latency = 400 /\ calls[2].is_error) =>
                  /\ snapshot.total_requests = 2
                  /\ snapshot.total_errors = 1
                  /\ snapshot.average_latency = 300
                  /\ snapshot.error_rate = 500

\* get_metrics was called after a success of 200 ms and an error of 400 ms
C20_Witness ==
    /\ snapshot.taken
    /\ snapshot.at = 2
    /\ recorded[1].latency = 200 /\ ~recorded[1].is_error
    /\ recorded[2].latency = 400 /\ recorded[2].is_error
    /\ snapshot.average_latency = 300
    /\ snapshot.error_rate = 500

\* C21: a get_metrics call made before any record_request call reports
\* average latency 0 and error rate 0 (and counts 0; the ratios are not
\* computed, so nothing is divided by 0), and a step that records no request,
\* such as get_metrics, leaves all four counters as they were.
C21_EmptyMetricsAreZeroAndReadOnly ==
    /\ [](snapshot.taken /\ snapshot.at = 0 =>
             /\ snapshot.average_latency = 0
             /\ snapshot.error_rate = 0
             /\ snapshot.total_requests = 0
             /\ snapshot.total_errors = 0)
    /\ [][recorded' = recorded => Counters' = Counters]_vars

\* get_metrics was called on a fresh collector, before any request was
\* recorded
C21_Witness ==
    /\ snapshot.taken
    /\ snapshot.at = 0
    /\ request_count = 0
    /\ snapshot.average_latency = 0
    /\ snapshot.error_rate = 0

\* the non-streaming requests that were answered 200
BufferedOk == {r \in Reqs : ppc[r] = "completed" /\ ~preq[r].stream}

\* C22: the body answered to a successful non-streaming request is the
\* upstream body with the value of its model field replaced by the requested
\* persona id; the form of the body, the presence of the model field and all
\* other fields are those of the upstream body.
C22_BufferedBodyModelRewritten ==
    \A r \in BufferedOk :
        /\ panswer[r].status = 200
        /\ pbody[r].returned.form = pbody[r].upstream.form
        /\ pbody[r].returned.rest = pbody[r].upstream.rest
        /\ pbody[r].returned.has_model = pbody[r].upstream.has_model
        /\ pbody[r].upstream.has_model =>
              /\ pbody[r].returned.model = preq[r].model
              /\ pbody[r].returned.model # UPSTREAM_MODEL_NAME

\* a non-streaming request was answered with an upstream object that named
\* the upstream model
C22_Witness ==
    \E r \in BufferedOk :
        /\ pbody[r].upstream.form = "object"
        /\ pbody[r].upstream.model = UPSTREAM_MODEL_NAME
        /\ pbody[r].returned.model = preq[r].model

\* the requests that were answered with a failure
FailedRequests == {r \in Reqs : ppc[r] \in {"rejected", "not_found", "failed"}}

\* C23: every failed chat request (rate-limited, unknown persona, upstream
\* error, timeout, connection failure, internal error) is answered with a
\* body of the form {error: {message, type, code}} whose code is the HTTP
\* status of the answer.
C23_FailureEnvelopeMirrorsStatus ==
    \A r \in FailedRequests :
        /\ panswer[r].kind = "error"
        /\ panswer[r].detail.kind = "dict"
        /\ panswer[r].detail.top = {"error"}
        /\ panswer[r].detail.ekind = "dict"
        /\ panswer[r].detail.keys = {"message", "type", "code"}
        /\ panswer[r].detail.code = panswer[r].status

-----------------------------------------------------------------------------
(* Properties of the HTTPSessionManager, stated over the log of its calls *)

SMReturned == 1..Len(smlog)

Gets == {i \in SMReturned : smlog[i].op = "get"}

\* the close calls that found an open client and closed it
Closings == {i \in SMReturned : smlog[i].op = "close" /\ ~smlog[i].unchanged}

\* C24: the manager never has two open clients; every get_session call
\* returns a client, and two calls between which no close call closed a
\* client return the same one -- so callers that arrive together while no
\* open client exists cause one construction and all receive its result.
C24_OneClientForConcurrentCallers ==
    /\ Cardinality(sopen) <= 1
    /\ sopen \subseteq {session}
    /\ \A i \in Gets : smlog[i].client # 0
    /\ \A i, j \in Gets :
          (i < j /\ \A k \in Closings : ~(i < k /\ k < j)) =>
              smlog[i].client = smlog[j].client
    /\ Closings = {} => made <= 1

\* two get_session calls that waited for the lock together, while there was
\* no client, returned the one client constructed
C24_Witness ==
    \E i, j \in Gets :
        /\ i < j
        /\ smlog[i].overlapped /\ smlog[j].overlapped
        /\ smlog[i].client = smlog[j].client
        /\ made = 1
        /\ Closings = {}

\* C25: every get_session call returns a client that is open when the call
\* returns; a close call leaves no open client, and one that finds no
\* client, or a client already closed, changes nothing and returns.
C25_GetSessionReturnsOpenClient ==
    /\ \A i \in Gets : smlog[i].client # 0 /\ smlog[i].open
    /\ \A i \in SMReturned :
          smlog[i].op = "close" =>
              /\ ~smlog[i].open
              /\ smlog[i].client = 0 => smlog[i].unchanged
              /\ \A h \in SMReturned :
                    (/\ h < i
                     /\ smlog[h].op = "close"
                     /\ \A g \in Gets : ~(h < g /\ g < i)) => smlog[i].unchanged

\* get_session, close, get_session: the second get_session built a new
\* client in place of the closed one
C25_Witness ==
    /\ Len(smlog) = 3
    /\ smlog[1].op = "get"
    /\ smlog[2].op = "close" /\ ~smlog[2].unchanged
    /\ smlog[3].op = "get"
    /\ smlog[3].client # smlog[1].client
    /\ smlog[3].open

-----------------------------------------------------------------------------
(* The time a dispatch takes, in seconds.  A timeout stands for the total   *)
(* timer of the client (ClientTimeout.total, lines 276-280) running out,    *)
(* REQUEST_TIMEOUT after the attempt began; any other attempt is counted as *)
(* taking no time at all, so Elapsed is the least the dispatch can have     *)
(* taken.                                                                   *)

AttemptTime(result) == IF result.kind = "timeout" THEN REQUEST_TIMEOUT ELSE 0

RECURSIVE Sum(_)
Sum(seq) == IF seq = <<>> THEN 0 ELSE seq[Len(seq)] + Sum(SubSeq(seq, 1, Len(seq) - 1))

\* lines 308-320: the attempts and the sleeps between them follow one another
Elapsed == Sum([i \in 1..Len(results) |-> AttemptTime(results[i])]) + Sum(waits)

\* C26: the time of one dispatch, summed over its attempts and the backoff
\* waits between them, never exceeds REQUEST_TIMEOUT.
C26_DispatchWithinRequestTimeout == Elapsed <= REQUEST_TIMEOUT

\* C27: for every accepted configuration, the connect timeout of a client
\* the manager constructs is strictly shorter than its total timeout.
C27_ConnectShorterThanTotal ==
    (configured = "accepted" /\ made > 0) => stimeout.connect < stimeout.total

\* an exception other than HTTPException was raised while the handler of
\* request r ran: response.json() or the test of line 694 raised, the error
\* returned by the dispatch has no get (line 677), or line 693 was reached
\* without a response
Unanticipated(r) ==
    /\ ppc[r] = "failed"
    /\ \/ pbody[r].upstream.form \in {"scalar", "unreadable"}
       \/ Truthy(poutcome[r].error) /\ ErrorCode(poutcome[r].error).raised
       \/ ~Truthy(poutcome[r].error) /\ poutcome[r].response = "None"

\* what the pipeline holds of request q
OfRequest(q) ==
    <<preq[q], ppc[q], padmission[q], pattempt[q], plast[q], pcalls[q],
      poutcome[q], panswer[q], prelayed[q], pbody[q]>>

\* C28: a request whose handling raised an unanticipated exception is
\* answered (it is never left without an answer), with status 500 and an
\* internal_error body, and the step that fails a request changes nothing
\* of any other request.
C28_UnanticipatedFailureIs500 ==
    /\ [](\A r \in Reqs :
             Unanticipated(r) =>
                 /\ panswer[r].kind = "error"
                 /\ panswer[r].status = 500
                 /\ ErrorIs(panswer[r].detail, "internal_error", 500))
    /\ [][\A r \in Reqs :
             (ppc'[r] = "failed" /\ ppc[r] # "failed") =>
                 \A q \in Reqs \ {r} : OfRequest(q)' = OfRequest(q)]_vars

\* a request failed on an upstream body it could not read while another
\* request, still in flight, went on to be answered 200
C28_Witness ==
    \E r, q \in Reqs :
        /\ Unanticipated(r)
        /\ pbody[r].upstream.form = "unreadable"
        /\ panswer[r].status = 500
        /\ ppc[q] = "completed"
        /\ panswer[q].status = 200
        /\ pcalls[q] > 0

-----------------------------------------------------------------------------
(* The ceiling of the retry loop *)

\* every attempt of the dispatch ended in a connection failure or a timeout
AllFailedInTransport == \A i \in Attempts : TransportFailure(results[i])

\* C29: a dispatch makes at most MAX_RETRIES attempts and waits at most
\* MAX_RETRIES - 1 times (never, when MAX_RETRIES is 0 and no attempt is
\* made); when all MAX_RETRIES attempts failed in transport, MAX_RETRIES - 1
\* waits were made, none after the last attempt, their sum is
\* RETRY_DELAY * (2^(MAX_RETRIES - 1) - 1), no further attempt is possible,
\* and the dispatch returns no response and an error.
C29_AttemptsAndWaitsBounded ==
    /\ Len(results) <= MAX_RETRIES
    /\ Len(sent) = Len(results)
    /\ Len(waits) <= Max2(MAX_RETRIES - 1, 0)
    /\ (MAX_RETRIES >= 1 /\ Len(results) = MAX_RETRIES /\ AllFailedInTransport)
          => /\ Len(waits) = MAX_RETRIES - 1
             /\ dpc # "sleeping"
             /\ Sum(waits) = RETRY_DELAY * (2^(MAX_RETRIES - 1) - 1)
             /\ dpc = "loop" => attempt >= MAX_RETRIES
             /\ DispatchReturned
                   => /\ outcome.response = "None"
                      /\ Truthy(outcome.error)
                      /\ ErrorCode(outcome.error).code \in {502, 504}

\* N = 3, base 2: three attempts failed in transport, the waits were 2 and 4
\* (6 = 2 * (2^2 - 1) in all), and the dispatch returned its error
C29_Witness ==
    /\ MAX_RETRIES = 3
    /\ RETRY_DELAY = 2
    /\ Len(results) = 3
    /\ AllFailedInTransport
    /\ waits = <<2, 4>>
    /\ Sum(waits) = 6
    /\ dpc = "classified"
    /\ outcome.response = "None"
    /\ Truthy(outcome.error)

\* C30: every attempt after the first directly follows an attempt that ended
\* in a connection failure or a timeout; an attempt that raised any other
\* exception is the last call of its dispatch, no wait follows it, and the
\* dispatch returns no response and internal_error with code 500, which
\* create_chat_completion answers with status 500.
C30_OnlyTransportFailuresRetried ==
    /\ \A i \in Attempts : i >= 2 => TransportFailure(results[i - 1])
    /\ \A i \in Attempts :
          results[i].kind = "other"
          => /\ i = Len(results)
             /\ Len(sent) = i
             /\ Len(waits) = i - 1
             /\ DispatchReturned
             /\ outcome.response = "None"
             /\ ErrorIs(outcome.error, "internal_error", 500)
             /\ dpc = "answered" => answer.status = 500

\* with retries left, the second attempt (made after a timeout) raised an
\* exception that is neither a timeout nor a connection failure, and the
\* request was answered after those two calls
C30_Witness ==
    /\ MAX_RETRIES = 3
    /\ Len(results) = 2
    /\ results[1].kind = "timeout"
    /\ results[2].kind = "other"
    /\ Len(sent) = 2
    /\ Len(waits) = 1
    /\ dpc = "answered"
    /\ answer.status = 500

-----------------------------------------------------------------------------
(* The streaming count *)

\* the streaming requests whose dispatch returned a live response and whose
\* StreamingResponse has been returned, relayed or not, ended or not
StreamedAfterSuccess ==
    {r \in Reqs : /\ preq[r].stream
                  /\ poutcome[r].response = "live"
                  /\ ppc[r] \in {"streaming", "completed"}}

\* C31: the streaming count is the number of streaming requests whose
\* dispatch succeeded and that have reached the relay: such a request is
\* counted before its first frame is relayed and before its stream ends, and
\* a streaming request that is rejected or whose dispatch failed is never
\* counted.
C31_StreamingCountedOnSuccessOnly ==
    streaming_requests = Cardinality(StreamedAfterSuccess)

-----------------------------------------------------------------------------
(* Lines and frames of a relay *)

\* the upstream lines before the sentinel (all of them when there is none)
BeforeSentinel ==
    {i \in 1..Len(upstream) : \A k \in 1..i : upstream[k].kind # "done"}

\* the frames built from upstream line i
FramesOf(i) == {j \in FrameNumbers : frames[j].from = i}

\* the loop raised on line i: it cannot be decoded, or the test of line 436
\* raised on its payload
RaisedOn(i) == upstream[i].kind \in {"undecodable", "scalar"}

\* C32: when a relay that the consumer did not stop has ended, every
\* upstream line before the sentinel has exactly one frame (a line the loop
\* raised on has the error frame and is left aside here), the frames are in
\* the order of their lines, a blank line has a blank separator frame and a
\* non-blank line without the data prefix has a frame with its own text.
C32_EveryLineOneFrameInOrder ==
    spc = "finished" =>
        /\ \A i \in BeforeSentinel :
              ~RaisedOn(i) =>
                  /\ Cardinality(FramesOf(i)) = 1
                  /\ \A j \in FramesOf(i) :
                        /\ upstream[i].kind = "blank" => frames[j].form = "newline"
                        /\ upstream[i].kind = "other" =>
                              /\ frames[j].form = "text"
                              /\ frames[j].text = upstream[i].text
        /\ \A j, k \in FrameNumbers :
              (j < k /\ frames[k].from > 0) => frames[j].from < frames[k].from

-----------------------------------------------------------------------------
(* Dispatches and their attempts *)

\* attempt i raised, or returned a response of status 400 or above
FailedAttempt(i) ==
    \/ results[i].kind # "response"
    \/ results[i].status >= 400

\* C33: whatever MAX_RETRIES the configuration holds, a dispatch that has
\* returned made at least one upstream attempt, and it returned an error
\* only after an attempt that failed or returned status 400 or above.
C33_AtLeastOneAttempt ==
    DispatchReturned =>
        /\ Len(results) >= 1
        /\ outcome.error # PyNone => \E i \in Attempts : FailedAttempt(i)

\* C34: when all MAX_RETRIES attempts of a dispatch failed in transport, the
\* error it returns is that of the last attempt: timeout_error with code 504
\* after a timeout, connection_error with code 502 after a connection
\* failure, whatever the kinds of the earlier failures.
C34_LastFailureDecides ==
    (/\ DispatchReturned
     /\ MAX_RETRIES >= 1
     /\ Len(results) = MAX_RETRIES
     /\ AllFailedInTransport)
    => /\ outcome.response = "None"
       /\ results[Len(results)].kind = "timeout"
             => ErrorIs(outcome.error, "timeout_error", 504)
       /\ results[Len(results)].kind = "client"
             => ErrorIs(outcome.error, "connection_error", 502)

\* two timeouts, then a connection failure: connection_error
C34_Witness ==
    /\ MAX_RETRIES = 3
    /\ Len(results) = 3
    /\ results[1].kind = "timeout"
    /\ results[2].kind = "timeout"
    /\ results[3].kind = "client"
    /\ dpc = "answered"
    /\ ErrorIs(outcome.error, "connection_error", 502)
    /\ answer.status = 502

\* the messages of role system in a list
SystemMessages(messages) ==
    {j \in 1..Len(messages) : messages[j].role = "system"}

\* C35: every attempt of a dispatch sends the body of the first attempt;
\* its message list is one longer than the caller's when the caller sent no
\* system message and as long otherwise, after any number of retries, and
\* it holds the persona's prompt at most once.
C35_SameBodyOnEveryAttempt ==
    \A i \in 1..Len(sent) :
        /\ sent[i] = sent[1]
        /\ sent[i] = request_data
        /\ Len(sent[i].messages) =
              Len(chat_request.messages) + (IF CallerHasSystem THEN 0 ELSE 1)
        /\ Cardinality({j \in SystemMessages(sent[i].messages) :
                sent[i].messages[j].content = SystemPrompt(chat_request.model)}) <= 1
        /\ Cardinality(SystemMessages(sent[i].messages)) =
              IF CallerHasSystem
              THEN Cardinality(SystemMessages(chat_request.messages))
              ELSE 1

\* the third attempt, after two retries, for a caller with two messages and
\* no system message: three messages went out each time
C35_Witness ==
    /\ Len(sent) = 3
    /\ ~CallerHasSystem
    /\ Len(chat_request.messages) = 2
    /\ Len(sent[3].messages) = 3
    /\ sent[3] = sent[1]

\* C36: a dispatch whose upstream response had status 400 or above is
\* answered with an error of status 400 or above, whatever the body of the
\* response: never with a StreamingResponse and never with a JSON body.
C36_UpstreamErrorNeverSucceeds ==
    (dpc = "answered" /\ GotResponse /\ response.status >= 400) =>
        /\ answer.kind = "error"
        /\ answer.status >= 400

\* the payload of line i parses as JSON: an object, an array, or a string,
\* a number or null
ParsedPayload(i) == upstream[i].kind \in {"object", "array", "scalar"}

\* C37: every data line taken by the loop whose payload parses as JSON has
\* exactly one frame, a data frame, whatever the parsed value is, and the
\* relay is not ended by such a line: no error frame reports a TypeError.
C37_ParsedLineOneDataFrame ==
    /\ \A i \in 1..spos :
          ParsedPayload(i) =>
              /\ Cardinality(FramesOf(i)) = 1
              /\ \A j \in FramesOf(i) : frames[j].form = "json"
    /\ \A j \in FrameNumbers :
          frames[j].form = "error" => frames[j].text # "TypeError"

-----------------------------------------------------------------------------
(* Admission and the rate window *)

\* the requests of key k that the admission check allowed
AdmittedOf(k) == {r \in Reqs : padmission[r] = "allowed" /\ preq[r].key = k}

\* the admission check of r has been made
Checked(r) == padmission[r] # "none"

\* C38: the admission check is made before the persona is looked up: a
\* request is answered only after its check, a request for an unknown
\* persona is answered 429 when the check found the window of its key full
\* and 404, with one slot of the window taken, when it did not; each
\* admitted request takes exactly one slot (within one window, the window
\* of a key holds one slot per admitted request of that key, whatever became
\* of the request), and a denied request takes none.
C38_AdmissionBeforePersona ==
    /\ [](/\ \A k \in Keys : Len(requests[k]) = Cardinality(AdmittedOf(k))
          /\ \A r \in Reqs :
                /\ HasAnswer(r) => Checked(r)
                /\ (UnknownModel(r) /\ Checked(r)) =>
                      IF padmission[r] = "denied"
                      THEN ppc[r] = "rejected" /\ Answered429(r)
                      ELSE /\ ppc[r] \in {"admitted", "not_found"}
                           /\ HasAnswer(r) => Answered404(r)
                           /\ Len(requests[preq[r].key]) >= 1)
    /\ [][\A r \in Reqs :
             (Checked(r)' /\ ~Checked(r)) =>
                 LET k == preq[r].key
                 IN  /\ padmission'[r] = "denied" <=> KeyWindowFull(r)
                     /\ Len(requests'[k]) =
                           Len(requests[k]) + (IF KeyWindowFull(r) THEN 0 ELSE 1)
                     /\ \A other \in Keys \ {k} : requests'[other] = requests[other]]_vars

\* of two requests for an unknown persona from one address, the first took
\* the only slot of the window and was answered 404, and the second was
\* answered 429
C38_Witness ==
    \E r, q \in Reqs :
        /\ r # q
        /\ UnknownModel(r)
        /\ UnknownModel(q)
        /\ preq[r].key = preq[q].key
        /\ padmission[r] = "allowed"
        /\ Answered404(r)
        /\ Len(requests[preq[r].key]) = 1
        /\ padmission[q] = "denied"
        /\ Answered429(q)

-----------------------------------------------------------------------------
(* The upstream response at the end of a relay *)

\* the relay has ended and its consumer did not stop it
EndedUnstopped == spc \in {"finished", "crashed"}

\* C39: when a started relay over an upstream response has ended without
\* its consumer stopping it (after the sentinel, at the end of the upstream
\* body, or after the error frame of a failure), the response is closed;
\* the relay ends with the response open only when it was given no response
\* at all.
C39_EndedRelayClosedUpstream ==
    /\ (EndedUnstopped /\ sresponse = "live") => closed
    /\ spc = "crashed" => sresponse = "None"
    /\ (closed /\ ~EndedUnstopped) => spc = "cancelled"

\* a relay that failed on the read after two frames has ended, and the
\* response is closed
C39_Witness ==
    /\ spc = "finished"
    /\ sresponse = "live"
    /\ ending = "failure"
    /\ spos = Len(upstream)
    /\ Len(frames) = 3
    /\ LastFrame.form = "error"
    /\ closed

-----------------------------------------------------------------------------
(* The request count *)

\* the chat requests that have been answered
AnsweredRequests == {r \in Reqs : HasAnswer(r)}

\* C40: the request count of the MetricsCollector is the number of chat
\* requests answered so far, whatever their answers were: each request is
\* recorded exactly once.
C40_EachRequestCountedOnce ==
    request_count = Cardinality(AnsweredRequests)

=============================================================================
